---- MODULE Spec2Model ----
(***************************************************************************)
(* Lobby server (src/lobby_server.py) and game server                      *)
(* (src/game_server.py) of the two-player match backend.                   *)
(*                                                                         *)
(* Spec      : the lobby's connection threads, interleaved at the          *)
(*             boundaries of their `with g_session_lock` / `with           *)
(*             g_room_lock` sections, plus the game-server processes the   *)
(*             lobby spawns (game_server.main).                            *)
(* RaceSpec  : several Online users racing join_room on one idle room.     *)
(* LoopSpec  : game_server.game_loop / handle_game_end called with two     *)
(*             connected clients and their two receiver threads.           *)
(* LockSpec  : the lock operations of the lobby's handlers.                *)
(* DispatchSpec : handle_client's parsing and dispatch of incoming frames, *)
(*             with login, create_room and logout.                         *)
(* DbSpec    : the request threads of the DB server (src/db_server.py).    *)
(* LaunchSpec : start_game on several full rooms and the game servers it   *)
(*             spawns.                                                     *)
(***************************************************************************)
EXTENDS Integers, Sequences, FiniteSets, TLC

\* ---------------------------------------------------------------- bounds
NConn == 3
NUser == 2
MaxRooms == 1
MaxLaunch == 1
MaxInputs == 2
NRacers == 4
NLockThreads == 2
NDbClients == 3

\* ------------------------------------------------------ program constants
RoomCounterStart == 100
GAME_SERVER_START_PORT == 11001

Conns == 1..NConn
Users == 1..NUser
RoomIds == RoomCounterStart..(RoomCounterStart + MaxRooms - 1)

VARIABLES
    g_client_sessions,  \* dict username -> [sock, status]
    g_rooms,            \* dict room_id -> [host, players, status]
    g_room_counter,
    pc,                 \* per connection thread: where handle_client is
    username,           \* handle_client's local `username` (0 = None)
    data,               \* the user named by the login being handled (0 = none)
    room_id,            \* the handler's local `room_id` (0 = None)
    session,            \* handle_logout's local `session` (the popped entry)
    new_host,           \* handle_logout's local `new_host` (0 = None)
    out,                \* the reply the latest step sent: [to, reason]
    invite,             \* the invite the latest step handled: its target_user,
                        \* and the INVITE_RECEIVED it pushed (sock 0 = none)
    sock_closed,        \* connections whose socket another thread's logout closed
    all_players_in_room,\* handle_join_room's local copy of the player list
    host_at_copy,       \* history: the room's host at the instant that copy
                        \* was taken (read by no action)
    unlinked,           \* room dicts deleted from g_rooms that a handler's
                        \* local `room` still refers to, by room id
    notice,             \* the ROOM_UPDATE or PROMOTED_TO_HOST the latest step
                        \* sent, and the sockets it was sent on, in order
    request,            \* the frame the latest step of handle_client took
                        \* from recv_msg, when the step is Receive
    lobby_db,           \* what forward_to_db returned to the latest step: to
                        \* its query (db_response) and to its presence update
                        \* (db_status_response); "none" when it made no call
    games,              \* the running game_server.py processes, in spawn order
    ended,              \* rooms of which a game_server.py process has exited
    g_session_lock,     \* LockSpec: the thread that holds the lock (0 = free)
    g_room_lock,        \* LockSpec: the thread that holds the lock (0 = free)
    lk,                 \* LockSpec: per thread, the handler path it runs and
                        \* the index of its next operation
    \* ---- game_server.py: one match (LoopSpec)
    input_queue,        \* queue.Queue of <<player_id, action>>
    rstate,             \* per seat: where the receiver thread handle_client is
    lpc,                \* where the main thread is in game_loop / handle_game_end
    winner,             \* game_loop's local `winner` ("unbound" before any assignment)
    game_over,          \* per seat: the engine's game_over flag
    engine,             \* per seat: the engine operations applied, in order
    game_over_sent,     \* per seat: GAME_OVER messages sent on its socket
    db_creates,         \* GameLog.create requests submitted
    db_response,        \* what forward_to_db returned for it ("none" before)
    \* ---- db_server.py (DbSpec)
    users_json,         \* the content of storage/users.json: username ->
                        \* [password, status]
    gamelogs_json,      \* the content of storage/gamelogs.json: a list
    db_thread           \* per accepted connection: where its handle_client
                        \* thread is, its request, the data load_db handed
                        \* it and the response it sent

lobbyVars == <<g_client_sessions, g_rooms, g_room_counter, pc, username, data,
               room_id, session, new_host, out, invite, sock_closed,
               all_players_in_room, host_at_copy, unlinked, notice, lobby_db,
               request>>
serviceVars == <<games, ended>>
lockVars == <<g_session_lock, g_room_lock, lk>>
loopVars == <<input_queue, rstate, lpc, winner, game_over, engine,
              game_over_sent, db_creates, db_response>>
dbVars == <<users_json, gamelogs_json, db_thread>>
vars == <<g_client_sessions, g_rooms, g_room_counter, pc, username, data,
          room_id, session, new_host, out, invite, sock_closed,
          all_players_in_room, host_at_copy, unlinked, notice, lobby_db,
          request, games, ended,
          input_queue, rstate, lpc, winner, game_over, engine,
          game_over_sent, db_creates, db_response,
          g_session_lock, g_room_lock, lk,
          users_json, gamelogs_json, db_thread>>

\* ------------------------------------------------------------ data shapes
Online == [tag |-> "online", room_id |-> 0]
\* f"in_room_{room_id}", read back with int(status.split('_')[-1])
InRoom(r) == [tag |-> "in_room", room_id |-> r]
NoSessionLocal == [sock |-> 0, status |-> Online]

\* dict.pop / del
DictRemove(d, k) == [x \in (DOMAIN d) \ {k} |-> d[x]]
\* d[k] = v
DictPut(d, k, v) == [x \in (DOMAIN d) \cup {k} |-> IF x = k THEN v ELSE d[x]]

\* list.remove(x): drops the first occurrence only
RECURSIVE ListRemove(_, _)
ListRemove(s, x) ==
    IF s = <<>> THEN <<>>
    ELSE IF Head(s) = x THEN Tail(s)
    ELSE <<Head(s)>> \o ListRemove(Tail(s), x)

InList(s, x) == \E i \in 1..Len(s) : s[i] = x

NoOut == [to |-> 0, reason |-> ""]
NoInvite == [target_user |-> 0, sock |-> 0, from_user |-> 0, room_id |-> 0]

\* forward_to_db returns the DB's answer (status ok or status error) or one of
\* its own error dicts, named here by their reason
LobbyDbResponses ==
    {"ok", "error", "db_server_no_response", "db_server_connection_error",
     "db_server_bad_response"}
NoNotice == [type |-> "", room_id |-> 0, players |-> <<>>, host |-> 0,
             to |-> <<>>]
NoDb == [db_response |-> "none", db_status_response |-> "none"]
\* no frame observed
NoRequest == [on |-> 0, envelope |-> "", action |-> "", data |-> ""]

\* ---------------------------------------------------------------- Init
\* no match is being looked at: the variables of LoopSpec stay as they are
LoopOff ==
    /\ input_queue = <<>>
    /\ rstate = <<>>
    /\ lpc = "off"
    /\ winner = "unbound"
    /\ game_over = <<>>
    /\ engine = <<>>
    /\ game_over_sent = <<>>
    /\ db_creates = 0
    /\ db_response = "none"

\* the DB server (DbSpec) is not being looked at
DbOff ==
    /\ users_json = <<>>
    /\ gamelogs_json = <<>>
    /\ db_thread = <<>>

\* the lock-level view (LockSpec) is not being looked at
LockOff ==
    /\ g_session_lock = 0
    /\ g_room_lock = 0
    /\ lk = <<>>

Init ==
    /\ LoopOff
    /\ LockOff
    /\ g_client_sessions = <<>>
    /\ g_rooms = <<>>
    /\ g_room_counter = RoomCounterStart
    /\ pc = [c \in Conns |-> "recv"]
    /\ username = [c \in Conns |-> 0]
    /\ data = [c \in Conns |-> 0]
    /\ room_id = [c \in Conns |-> 0]
    /\ session = [c \in Conns |-> NoSessionLocal]
    /\ new_host = [c \in Conns |-> 0]
    /\ out = NoOut
    /\ invite = NoInvite
    /\ sock_closed = {}
    /\ all_players_in_room = [c \in Conns |-> <<>>]
    /\ host_at_copy = [c \in Conns |-> 0]
    /\ unlinked = <<>>
    /\ notice = NoNotice
    /\ lobby_db = NoDb
    /\ request = NoRequest
    /\ DbOff
    /\ games = <<>>
    /\ ended = {}

\* send_to_client(client_sock, {"status": ..., "reason": r}) and back to the
\* blocking recv_msg of handle_client; r = "" when the handler sends no reply
Return(c, r) ==
    /\ pc' = [pc EXCEPT ![c] = "recv"]
    /\ out' = IF r = "" THEN NoOut ELSE [to |-> c, reason |-> r]
    /\ invite' = NoInvite
    /\ room_id' = [room_id EXCEPT ![c] = 0]
    /\ data' = [data EXCEPT ![c] = 0]
    /\ all_players_in_room' = [all_players_in_room EXCEPT ![c] = <<>>]
    /\ host_at_copy' = [host_at_copy EXCEPT ![c] = 0]

Goto(c, label) ==
    /\ pc' = [pc EXCEPT ![c] = label]
    /\ out' = NoOut
    /\ invite' = NoInvite
    /\ UNCHANGED <<all_players_in_room, host_at_copy>>

\* ------------------------------------------------------------- login
\* reason = db_response.get("reason", "invalid_credentials"): the reason of
\* forward_to_db's error dict, or the one of the DB's answer to a query with
\* both fields
LoginFailReason(response) ==
    IF response = "error" THEN "invalid_credentials" ELSE response

\* handle_login up to the DB query: the check under g_session_lock, then the
\* round trip to the DB (its answer does not depend on the lobby's state).
Login(c, u) ==
    /\ pc[c] = "recv" /\ c \notin sock_closed /\ username[c] = 0
    /\ IF u \in DOMAIN g_client_sessions
       THEN Return(c, "already_logged_in") /\ lobby_db' = NoDb
       ELSE \E response \in LobbyDbResponses :
              /\ lobby_db' = [NoDb EXCEPT !.db_response = response]
              /\ IF response = "ok"
                 THEN /\ Goto(c, "login_insert")
                      /\ data' = [data EXCEPT ![c] = u]
                      /\ UNCHANGED room_id
                 ELSE Return(c, LoginFailReason(response))
    /\ UNCHANGED <<g_client_sessions, g_rooms, g_room_counter, username,
                   session, new_host, games, ended, loopVars, lockVars, dbVars,
                   sock_closed>>
    /\ notice' = NoNotice
    /\ UNCHANGED unlinked
    /\ request' = NoRequest

\* handle_login giving up when the presence update was not acknowledged
LoginInsert_FailOnStatus(c) ==
    /\ pc[c] = "login_insert"
    /\ \E response \in LobbyDbResponses :
         /\ lobby_db' = [NoDb EXCEPT !.db_status_response = response]
         /\ IF response = "ok"
            THEN /\ g_client_sessions' =
                      DictPut(g_client_sessions, data[c],
                              [sock |-> c, status |-> Online])
                 /\ username' = [username EXCEPT ![c] = data[c]]
                 /\ Return(c, "login_successful")
            ELSE /\ Return(c, response)
                 /\ UNCHANGED <<g_client_sessions, username>>
    /\ UNCHANGED <<g_rooms, g_room_counter, session, new_host, games, ended, loopVars, lockVars, dbVars,
                   sock_closed>>
    /\ notice' = NoNotice
    /\ UNCHANGED unlinked
    /\ request' = NoRequest

\* the second g_session_lock section of handle_login, the presence update
\* (its answer is only logged) and the return
LoginInsert(c) ==
    /\ pc[c] = "login_insert"
    /\ \E response \in LobbyDbResponses :
         lobby_db' = [NoDb EXCEPT !.db_status_response = response]
    /\ g_client_sessions' =
         DictPut(g_client_sessions, data[c], [sock |-> c, status |-> Online])
    /\ username' = [username EXCEPT ![c] = data[c]]
    /\ Return(c, "login_successful")
    /\ UNCHANGED <<g_rooms, g_room_counter, session, new_host, games, ended, loopVars, lockVars, dbVars,
                   sock_closed>>
    /\ notice' = NoNotice
    /\ UNCHANGED unlinked
    /\ request' = NoRequest

\* ------------------------------------------------------ logout / cleanup
\* handle_client leaves its loop: a logout request, recv_msg returning None,
\* or an exception; the finally block runs handle_logout(username) when the
\* connection is authenticated and only closes the socket otherwise.
Closed(c) ==
    /\ pc' = [pc EXCEPT ![c] = "closed"]
    /\ invite' = NoInvite
    /\ username' = [username EXCEPT ![c] = 0]
    /\ data' = [data EXCEPT ![c] = 0]
    /\ room_id' = [room_id EXCEPT ![c] = 0]
    /\ session' = [session EXCEPT ![c] = NoSessionLocal]
    /\ new_host' = [new_host EXCEPT ![c] = 0]
    /\ all_players_in_room' = [all_players_in_room EXCEPT ![c] = <<>>]
    /\ host_at_copy' = [host_at_copy EXCEPT ![c] = 0]

\* session["sock"].close() at the end of handle_logout closes the socket the
\* popped session names (s; 0 when handle_logout popped nothing), and
\* handle_client closes its own; a thread whose socket was closed under it can
\* take no further request
CloseSocks(c, s) ==
    sock_closed' = (sock_closed \cup
                      (IF s # 0 /\ pc[s] # "closed" THEN {s} ELSE {})) \ {c}

\* the end of handle_logout: send_to_client(session["sock"], {"status": "ok",
\* "reason": "logout_successful"}) on the socket the popped session names (s);
\* nothing is sent when handle_logout popped nothing or was not called (s = 0)
Confirm(s) ==
    out' = IF s = 0 THEN NoOut ELSE [to |-> s, reason |-> "logout_successful"]

\* handle_logout: session = g_client_sessions.pop(username, None); without a
\* popped session it returns at once, with one whose status is not in_room_<id>
\* it only sends the confirmation and closes the socket; the answer to the
\* presence update after the pop is only logged
PopSession(c) ==
    LET u == username[c] IN
    IF u \in DOMAIN g_client_sessions
    THEN /\ g_client_sessions' = DictRemove(g_client_sessions, u)
         /\ \E response \in LobbyDbResponses :
              lobby_db' = [NoDb EXCEPT !.db_status_response = response]
         /\ IF g_client_sessions[u].status.tag = "in_room"
            THEN /\ Goto(c, "logout_room")
                 /\ session' = [session EXCEPT ![c] = g_client_sessions[u]]
                 /\ UNCHANGED <<username, data, room_id, new_host, sock_closed>>
            ELSE Closed(c) /\ CloseSocks(c, g_client_sessions[u].sock) /\ Confirm(g_client_sessions[u].sock)
    ELSE /\ Closed(c) /\ CloseSocks(c, 0) /\ Confirm(0)
         /\ lobby_db' = NoDb
         /\ UNCHANGED g_client_sessions

\* the loop of handle_client ends on a logout request or on recv_msg
\* returning None; the finally block then calls handle_logout
EndConnection(c) ==
    /\ pc[c] = "recv"
    /\ IF username[c] = 0
       THEN /\ Closed(c) /\ CloseSocks(c, 0) /\ Confirm(0)
            /\ lobby_db' = NoDb
            /\ UNCHANGED g_client_sessions
       ELSE PopSession(c)
    /\ UNCHANGED <<g_rooms, g_room_counter, games, ended, loopVars, lockVars, dbVars>>
    /\ notice' = NoNotice
    /\ UNCHANGED unlinked
    /\ request' = NoRequest

\* the finally block after an exception in a handler
LogoutPop(c) ==
    /\ pc[c] = "logout_pop"
    /\ PopSession(c)
    /\ UNCHANGED <<g_rooms, g_room_counter, games, ended, loopVars, lockVars, dbVars>>
    /\ notice' = NoNotice
    /\ UNCHANGED unlinked
    /\ request' = NoRequest

\* LeaveRoom without `del g_rooms[room_id]`: the emptied room stays
LeaveRoom_KeepEmpty(room, u) ==
    LET players == ListRemove(room.players, u)
    IN  IF players # <<>> /\ room.host = u
        THEN [deleted |-> FALSE,
              room |-> [room EXCEPT !.players = players, !.host = players[1]],
              new_host |-> players[1]]
        ELSE [deleted |-> FALSE,
              room |-> [room EXCEPT !.players = players],
              new_host |-> 0]

\* LeaveRoom without the promotion of players[0]: the departed host stays host
LeaveRoom_NoPromote(room, u) ==
    LET players == ListRemove(room.players, u)
    IN  IF players = <<>>
        THEN [deleted |-> TRUE, room |-> room, new_host |-> 0]
        ELSE [deleted |-> FALSE,
              room |-> [room EXCEPT !.players = players],
              new_host |-> 0]

\* what handle_logout's g_room_lock section makes of the room `username` is
\* in: deleted, or kept with the player removed and, when the host left,
\* players[0] promoted (new_host)
LeaveRoom(room, u) ==
    LET players == IF InList(room.players, u)
                   THEN ListRemove(room.players, u)
                   ELSE room.players
    IN  IF players = <<>>
        THEN [deleted |-> TRUE, room |-> room, new_host |-> 0]
        ELSE IF room.host = u
        THEN [deleted |-> FALSE,
              room |-> [room EXCEPT !.players = players, !.host = players[1]],
              new_host |-> players[1]]
        ELSE [deleted |-> FALSE,
              room |-> [room EXCEPT !.players = players],
              new_host |-> 0]

\* a handle_join_room other than c's is past its g_room_lock section and its
\* local `room` is the dict of room r
Referenced(r, c) ==
    \E c2 \in DOMAIN pc :
        /\ c2 # c
        /\ pc[c2] \in {"join_room_status", "join_room_notify"}
        /\ room_id[c2] = r

\* the handler of c returns: the dict of a deleted room goes with the last
\* local that refers to it
Released(c) ==
    IF Referenced(room_id[c], c) THEN unlinked
    ELSE DictRemove(unlinked, room_id[c])

\* handle_logout: the `with g_room_lock` section
LogoutRoom(c) ==
    /\ pc[c] = "logout_room"
    /\ LET u == username[c]
           r == session[c].status.room_id
       IN  IF r \in DOMAIN g_rooms
           THEN LET res == LeaveRoom(g_rooms[r], u) IN
                /\ g_rooms' = IF res.deleted
                              THEN DictRemove(g_rooms, r)
                              ELSE DictPut(g_rooms, r, res.room)
                /\ unlinked' = IF res.deleted /\ Referenced(r, c)
                               THEN DictPut(unlinked, r,
                                            [res.room EXCEPT !.players = <<>>])
                               ELSE unlinked
                /\ IF res.new_host # 0
                   THEN /\ Goto(c, "logout_notify")
                        /\ new_host' = [new_host EXCEPT ![c] = res.new_host]
                        /\ UNCHANGED <<username, data, room_id, session,
                                       sock_closed>>
                   ELSE Closed(c) /\ CloseSocks(c, session[c].sock) /\ Confirm(session[c].sock)
           ELSE /\ Closed(c) /\ CloseSocks(c, session[c].sock) /\ Confirm(session[c].sock)
                /\ UNCHANGED <<g_rooms, unlinked>>
    /\ UNCHANGED <<g_client_sessions, g_room_counter, games, ended, loopVars, lockVars, dbVars>>
    /\ lobby_db' = NoDb
    /\ notice' = NoNotice
    /\ request' = NoRequest

\* handle_logout, step 4: new_host_session = g_client_sessions.get(new_host)
\* and, if there is one, PROMOTED_TO_HOST{room_id} on its socket
PromotedNotice(room_to_update, nh) ==
    IF nh \in DOMAIN g_client_sessions
    THEN [type |-> "PROMOTED_TO_HOST", room_id |-> room_to_update,
          players |-> <<>>, host |-> 0,
          to |-> <<g_client_sessions[nh].sock>>]
    ELSE NoNotice

\* handle_logout: PROMOTED_TO_HOST to the new host's session, if it has one,
\* then the logout confirmation and the close of the own socket
LogoutNotify(c) ==
    /\ pc[c] = "logout_notify"
    /\ notice' = PromotedNotice(session[c].status.room_id, new_host[c])
    /\ Closed(c) /\ CloseSocks(c, session[c].sock) /\ Confirm(session[c].sock)
    /\ UNCHANGED <<g_client_sessions, g_rooms, g_room_counter, games, ended, loopVars, lockVars, dbVars>>
    /\ lobby_db' = NoDb
    /\ UNCHANGED unlinked
    /\ request' = NoRequest

\* ------------------------------------------------------------ create_room
PendingAlloc == Cardinality({c \in Conns : pc[c] = "create_room_alloc"})

CreateRoom(c) ==
    /\ pc[c] = "recv" /\ c \notin sock_closed /\ username[c] # 0
    /\ LET u == username[c] IN
       IF u \notin DOMAIN g_client_sessions
       THEN Return(c, "session_not_found")
       ELSE IF g_client_sessions[u].status # Online
       THEN Return(c, "already_in_a_room")
       ELSE /\ g_room_counter + PendingAlloc < RoomCounterStart + MaxRooms
            /\ Goto(c, "create_room_alloc")
            /\ UNCHANGED <<data, room_id>>
    /\ UNCHANGED <<g_client_sessions, g_rooms, g_room_counter, username,
                   session, new_host, games, ended, loopVars, lockVars, dbVars,
                   sock_closed>>
    /\ lobby_db' = NoDb
    /\ notice' = NoNotice
    /\ UNCHANGED unlinked
    /\ request' = NoRequest

\* handle_create_room making the room without its creator in players
CreateRoomAlloc_NoPlayer(c) ==
    /\ pc[c] = "create_room_alloc"
    /\ room_id' = [room_id EXCEPT ![c] = g_room_counter]
    /\ g_room_counter' = g_room_counter + 1
    /\ g_rooms' = DictPut(g_rooms, g_room_counter,
                          [host |-> username[c],
                           players |-> <<>>,
                           status |-> "idle"])
    /\ Goto(c, "create_room_status")
    /\ UNCHANGED <<g_client_sessions, username, data, session, new_host,
                   games, ended, loopVars, lockVars, dbVars,
                   sock_closed>>
    /\ lobby_db' = NoDb
    /\ notice' = NoNotice
    /\ UNCHANGED unlinked
    /\ request' = NoRequest

\* handle_create_room: the `with g_room_lock` section
CreateRoomAlloc(c) ==
    /\ pc[c] = "create_room_alloc"
    /\ room_id' = [room_id EXCEPT ![c] = g_room_counter]
    /\ g_room_counter' = g_room_counter + 1
    /\ g_rooms' = DictPut(g_rooms, g_room_counter,
                          [host |-> username[c],
                           players |-> <<username[c]>>,
                           status |-> "idle"])
    /\ Goto(c, "create_room_status")
    /\ UNCHANGED <<g_client_sessions, username, data, session, new_host,
                   games, ended, loopVars, lockVars, dbVars,
                   sock_closed>>
    /\ lobby_db' = NoDb
    /\ notice' = NoNotice
    /\ UNCHANGED unlinked
    /\ request' = NoRequest

\* g_client_sessions[username]["status"] = ...: KeyError when the entry is
\* gone, which handle_client's except/finally turns into handle_logout
SetStatus(c, next) ==
    LET u == username[c] IN
    IF u \in DOMAIN g_client_sessions
    THEN /\ g_client_sessions' =
              [g_client_sessions EXCEPT ![u].status = InRoom(room_id[c])]
         /\ next
    ELSE /\ Goto(c, "logout_pop")
         /\ UNCHANGED <<g_client_sessions, data, room_id>>

CreateRoomStatus(c) ==
    /\ pc[c] = "create_room_status"
    /\ SetStatus(c, Return(c, "ok"))
    /\ UNCHANGED <<g_rooms, g_room_counter, username, session, new_host,
                   games, ended, loopVars, lockVars, dbVars,
                   sock_closed>>
    /\ lobby_db' = NoDb
    /\ notice' = NoNotice
    /\ UNCHANGED unlinked
    /\ request' = NoRequest

\* -------------------------------------------------------------- join_room
JoinRoom(c, r) ==
    /\ pc[c] = "recv" /\ c \notin sock_closed /\ username[c] # 0
    /\ LET u == username[c] IN
       IF u \in DOMAIN g_client_sessions /\ g_client_sessions[u].status # Online
       THEN Return(c, "already_in_a_room")
       ELSE /\ Goto(c, "join_room_lock")
            /\ room_id' = [room_id EXCEPT ![c] = r]
            /\ UNCHANGED data
    /\ UNCHANGED <<g_client_sessions, g_rooms, g_room_counter, username,
                   session, new_host, games, ended, loopVars, lockVars, dbVars,
                   sock_closed>>
    /\ lobby_db' = NoDb
    /\ notice' = NoNotice
    /\ UNCHANGED unlinked
    /\ request' = NoRequest

\* the capacity check with > in place of >=
RoomIsFull_OffByOne(room) == Len(room.players) > 2

\* len(room["players"]) >= 2
RoomIsFull(room) == Len(room.players) >= 2

\* handle_join_room appending the player before the capacity check
JoinRoomLock_AppendFirst(c) ==
    /\ pc[c] = "join_room_lock"
    /\ LET r == room_id[c] IN
       IF r \notin DOMAIN g_rooms
       THEN Return(c, "room_not_found") /\ UNCHANGED g_rooms
       ELSE IF g_rooms[r].status # "idle"
       THEN Return(c, "room_is_playing") /\ UNCHANGED g_rooms
       ELSE /\ g_rooms' = [g_rooms EXCEPT
                             ![r].players = Append(@, username[c])]
            /\ IF RoomIsFull(g_rooms[r])
               THEN Return(c, "room_is_full")
               ELSE /\ Goto(c, "join_room_status")
                    /\ UNCHANGED <<data, room_id>>
    /\ UNCHANGED <<g_client_sessions, g_room_counter, username, session,
                   new_host, games, ended, loopVars, lockVars, dbVars,
                   sock_closed>>
    /\ lobby_db' = NoDb
    /\ notice' = NoNotice
    /\ UNCHANGED unlinked
    /\ request' = NoRequest

\* handle_join_room: the `with g_room_lock` section
JoinRoomLock(c) ==
    /\ pc[c] = "join_room_lock"
    /\ LET r == room_id[c] IN
       IF r \notin DOMAIN g_rooms
       THEN Return(c, "room_not_found") /\ UNCHANGED g_rooms
       ELSE IF g_rooms[r].status # "idle"
       THEN Return(c, "room_is_playing") /\ UNCHANGED g_rooms
       ELSE IF RoomIsFull(g_rooms[r])
       THEN Return(c, "room_is_full") /\ UNCHANGED g_rooms
       ELSE /\ g_rooms' = [g_rooms EXCEPT
                             ![r].players = Append(@, username[c])]
            /\ all_players_in_room' =
                 [all_players_in_room EXCEPT
                    ![c] = Append(g_rooms[r].players, username[c])]
            /\ host_at_copy' = [host_at_copy EXCEPT ![c] = g_rooms[r].host]
            /\ pc' = [pc EXCEPT ![c] = "join_room_status"]
            /\ out' = NoOut /\ invite' = NoInvite
            /\ UNCHANGED <<data, room_id>>
    /\ UNCHANGED <<g_client_sessions, g_room_counter, username, session,
                   new_host, games, ended, loopVars, lockVars, dbVars,
                   sock_closed>>
    /\ lobby_db' = NoDb
    /\ notice' = NoNotice
    /\ UNCHANGED unlinked
    /\ request' = NoRequest

JoinRoomStatus(c) ==
    /\ pc[c] = "join_room_status"
    /\ SetStatus(c, Goto(c, "join_room_notify") /\ UNCHANGED <<data, room_id>>)
    /\ unlinked' = IF username[c] \in DOMAIN g_client_sessions
                   THEN unlinked ELSE Released(c)
    /\ notice' = NoNotice
    /\ UNCHANGED <<g_rooms, g_room_counter, username, session, new_host,
                   games, ended, loopVars, lockVars, dbVars,
                   sock_closed>>
    /\ lobby_db' = NoDb
    /\ request' = NoRequest

\* the sockets of the sessions of the listed players, in list order; a player
\* without a session is skipped
RECURSIVE SessionSocks(_)
SessionSocks(names) ==
    IF names = <<>> THEN <<>>
    ELSE (IF Head(names) \in DOMAIN g_client_sessions
          THEN <<g_client_sessions[Head(names)].sock>> ELSE <<>>)
         \o SessionSocks(Tail(names))

\* the dict handle_join_room's local `room` refers to
RoomOf(c) ==
    IF room_id[c] \in DOMAIN g_rooms THEN g_rooms[room_id[c]]
    ELSE unlinked[room_id[c]]

\* ROOM_UPDATE sent back on the joiner's own socket only
RoomUpdateMsg_JoinerOnly(c) ==
    [type |-> "ROOM_UPDATE", room_id |-> room_id[c],
     players |-> all_players_in_room[c], host |-> RoomOf(c).host,
     to |-> <<c>>]

\* ROOM_UPDATE with the copied players and room.get("host") as it is now
RoomUpdateMsg(c) ==
    [type |-> "ROOM_UPDATE", room_id |-> room_id[c],
     players |-> all_players_in_room[c], host |-> RoomOf(c).host,
     to |-> SessionSocks(all_players_in_room[c])]

\* handle_join_room, step 5: room_update_msg is built and sent, under
\* g_session_lock, to every listed player that has a session
JoinRoomNotify(c) ==
    /\ pc[c] = "join_room_notify"
    /\ notice' = RoomUpdateMsg(c)
    /\ unlinked' = Released(c)
    /\ Return(c, "")
    /\ UNCHANGED <<g_client_sessions, g_rooms, g_room_counter, username,
                   session, new_host, games, ended, loopVars, lockVars, dbVars,
                   sock_closed>>
    /\ lobby_db' = NoDb
    /\ request' = NoRequest

\* ----------------------------------------------------------------- invite
\* handle_invite without the check of the target's status
InviteReply_NoBusyCheck(u, t) ==
    IF t = 0 THEN "no_target_user"
    ELSE IF t = u THEN "cannot_invite_self"
    ELSE IF ~(u \in DOMAIN g_client_sessions
              /\ g_client_sessions[u].status.tag = "in_room")
    THEN "not_in_a_room"
    ELSE IF t \notin DOMAIN g_client_sessions THEN "user_not_online"
    ELSE "invite_sent"

\* the reply handle_invite gives for target_user t (0 = the request names no
\* target), "invite_sent" when every check passes
InviteReply(u, t) ==
    IF t = 0 THEN "no_target_user"
    ELSE IF t = u THEN "cannot_invite_self"
    ELSE IF ~(u \in DOMAIN g_client_sessions
              /\ g_client_sessions[u].status.tag = "in_room")
    THEN "not_in_a_room"
    ELSE IF t \notin DOMAIN g_client_sessions THEN "user_not_online"
    ELSE IF g_client_sessions[t].status # Online THEN "user_is_busy"
    ELSE "invite_sent"

\* handle_invite: the checks (one g_session_lock section), then INVITE_RECEIVED
\* to target_sock and the ack to the inviter; no registry is written
Invite(c, t) ==
    /\ pc[c] = "recv" /\ c \notin sock_closed /\ username[c] # 0
    /\ LET u == username[c]
           r == InviteReply(u, t)
       IN  /\ out' = [to |-> c, reason |-> r]
           /\ invite' = IF r = "invite_sent"
                        THEN [target_user |-> t,
                              sock |-> g_client_sessions[t].sock,
                              from_user |-> u,
                              room_id |-> g_client_sessions[u].status.room_id]
                        ELSE [target_user |-> t, sock |-> 0,
                              from_user |-> u, room_id |-> 0]
    /\ UNCHANGED <<g_client_sessions, g_rooms, g_room_counter, pc, username,
                   data, room_id, session, new_host, sock_closed, games,
                   ended, loopVars, lockVars, dbVars, all_players_in_room,
                   host_at_copy>>
    /\ lobby_db' = NoDb
    /\ notice' = NoNotice
    /\ UNCHANGED unlinked
    /\ request' = NoRequest

\* ------------------------------------------------------------- start_game
\* the game servers running for room r, and the start_game requests for it
\* that are about to take g_room_lock
Launches(r) ==
    Cardinality({i \in 1..Len(games) : games[i].room = r})
      + Cardinality({c \in DOMAIN pc :
                       pc[c] = "start_game_lock" /\ room_id[c] = r})

StartGame(c) ==
    /\ pc[c] = "recv" /\ c \notin sock_closed /\ username[c] # 0
    /\ LET u == username[c] IN
       IF u \in DOMAIN g_client_sessions
          /\ g_client_sessions[u].status.tag = "in_room"
       THEN /\ Launches(g_client_sessions[u].status.room_id) < MaxLaunch
            /\ Goto(c, "start_game_lock")
            /\ room_id' = [room_id EXCEPT
                             ![c] = g_client_sessions[u].status.room_id]
            /\ UNCHANGED data
       ELSE Return(c, "not_in_a_room")
    /\ UNCHANGED <<g_client_sessions, g_rooms, g_room_counter, username,
                   session, new_host, games, ended, loopVars, lockVars, dbVars,
                   sock_closed>>
    /\ lobby_db' = NoDb
    /\ notice' = NoNotice
    /\ UNCHANGED unlinked
    /\ request' = NoRequest

\* ports bound by a listening game server
BoundPorts == {games[i].port : i \in {j \in 1..Len(games) : games[j].st = "listening"}}

\* find_free_port(start_port): the first port from start_port upward that binds
FindFreePort(start_port) ==
    CHOOSE p \in start_port..(start_port + Len(games)) :
        /\ p \notin BoundPorts
        /\ \A q \in start_port..(p - 1) : q \in BoundPorts

\* g_client_sessions.get(name, {}).get("sock")
SockOf(name) ==
    IF name \in DOMAIN g_client_sessions THEN g_client_sessions[name].sock ELSE 0

\* if sock: send_to_client(sock, game_info_msg)
Push(sent, sock) ==
    IF sock = 0 THEN sent ELSE Append(sent, sock)

\* the checks of handle_start_game under g_room_lock; "" when all pass
StartGameError(room, u) ==
    IF room.host # u THEN "not_room_host"
    ELSE IF Len(room.players) # 2 THEN "room_not_full"
    ELSE ""

\* handle_start_game with room["status"] = "playing" moved to the top of the
\* try block: a failed launch leaves the room marked playing
StartGameLock_MarkFirst(c) ==
    /\ pc[c] = "start_game_lock"
    /\ LET r == room_id[c] IN
       IF r \notin DOMAIN g_rooms
       THEN Return(c, "room_not_found") /\ UNCHANGED <<g_rooms, games>>
       ELSE IF StartGameError(g_rooms[r], username[c]) # ""
       THEN /\ Return(c, StartGameError(g_rooms[r], username[c]))
            /\ UNCHANGED <<g_rooms, games>>
       ELSE \E spawned \in BOOLEAN :
              IF spawned
              THEN LET game_port == FindFreePort(GAME_SERVER_START_PORT)
                       p1_sock == SockOf(g_rooms[r].players[1])
                       p2_sock == SockOf(g_rooms[r].players[2])
                   IN  /\ games' = Append(games, [room |-> r,
                                                   port |-> game_port,
                                                   st |-> "spawned",
                                                   clients |-> 0,
                                                   welcome |-> <<>>,
                                                   sent |-> Push(Push(<<>>, p1_sock), p2_sock)])
                       /\ g_rooms' = [g_rooms EXCEPT ![r].status = "playing"]
                       /\ Return(c, "")
              ELSE /\ Return(c, "server_failed_to_start_game")
                   /\ g_rooms' = [g_rooms EXCEPT ![r].status = "playing"]
                   /\ UNCHANGED games
    /\ UNCHANGED <<g_client_sessions, g_room_counter, username, session,
                   new_host, ended, loopVars, lockVars, dbVars,
                   sock_closed>>
    /\ lobby_db' = NoDb
    /\ notice' = NoNotice
    /\ UNCHANGED unlinked
    /\ request' = NoRequest

\* handle_start_game: the `with g_room_lock` section
StartGameLock(c) ==
    /\ pc[c] = "start_game_lock"
    /\ LET r == room_id[c] IN
       IF r \notin DOMAIN g_rooms
       THEN Return(c, "room_not_found") /\ UNCHANGED <<g_rooms, games>>
       ELSE IF StartGameError(g_rooms[r], username[c]) # ""
       THEN /\ Return(c, StartGameError(g_rooms[r], username[c]))
            /\ UNCHANGED <<g_rooms, games>>
       ELSE \E spawned \in BOOLEAN :
              IF spawned
              THEN LET game_port == FindFreePort(GAME_SERVER_START_PORT)
                       p1_sock == SockOf(g_rooms[r].players[1])
                       p2_sock == SockOf(g_rooms[r].players[2])
                   IN  /\ games' = Append(games, [room |-> r,
                                                   port |-> game_port,
                                                   st |-> "spawned",
                                                   clients |-> 0,
                                                   welcome |-> <<>>,
                                                   sent |-> Push(Push(<<>>, p1_sock), p2_sock)])
                       /\ g_rooms' = [g_rooms EXCEPT ![r].status = "playing"]
                       /\ Return(c, "")
              ELSE /\ Return(c, "server_failed_to_start_game")
                   /\ UNCHANGED <<g_rooms, games>>
    /\ UNCHANGED <<g_client_sessions, g_room_counter, username, session,
                   new_host, ended, loopVars, lockVars, dbVars,
                   sock_closed>>
    /\ lobby_db' = NoDb
    /\ notice' = NoNotice
    /\ UNCHANGED unlinked
    /\ request' = NoRequest

\* ------------------------------------------------- game_server.py: main()
\* server_socket.bind((HOST, PORT)): a failed bind logs and returns
RemoveAt(s, i) == SubSeq(s, 1, i - 1) \o SubSeq(s, i + 1, Len(s))

\* the process of games[i] exits
Exit(i) ==
    /\ games' = RemoveAt(games, i)
    /\ ended' = ended \cup {games[i].room}

GsBind(i) ==
    /\ games[i].st = "spawned"
    /\ IF games[i].port \in BoundPorts
       THEN Exit(i)
       ELSE /\ games' = [games EXCEPT ![i].st = "listening"]
            /\ UNCHANGED ended
    /\ UNCHANGED <<lobbyVars, loopVars, lockVars, dbVars>>

\* A client that was sent GAME_START connects: server_socket.accept() returns
\* and the socket is appended to clients.
GsAccept(i) ==
    /\ games[i].st = "listening"
    /\ games[i].sent # <<>>
    /\ games' = [games EXCEPT ![i].st = "accepted", ![i].clients = @ + 1]
    /\ UNCHANGED <<ended, lobbyVars, loopVars, lockVars, dbVars>>

\* main() builds welcome_msg with "seed": game_seed, a local that is assigned
\* only after the accept loop: UnboundLocalError, outside the inner try, caught
\* by main's `except Exception`; the finally block closes every socket. The
\* process ends without having sent anything (welcome stays empty).
GsWelcome(i) ==
    /\ games[i].st = "accepted"
    /\ Exit(i)
    /\ UNCHANGED <<lobbyVars, loopVars, lockVars, dbVars>>

\* =================================================== game_server.py: a match
\* game_loop(clients, input_queue, game_p1, game_p2) as main() calls it: two
\* accepted clients, each with its receiver thread handle_client already
\* started, the queue empty, `winner` not yet assigned.
Seats == {0, 1}
Other(p) == 1 - p
Actions == {"MOVE_LEFT", "MOVE_RIGHT", "ROTATE", "SOFT_DROP", "HARD_DROP"}

LoopInit ==
    /\ LockOff
    /\ input_queue = <<>>
    /\ rstate = [p \in Seats |-> "recv"]
    /\ lpc = "drain"
    /\ winner = "unbound"
    /\ game_over = [p \in Seats |-> FALSE]
    /\ engine = [p \in Seats |-> <<>>]
    /\ game_over_sent = [p \in Seats |-> 0]
    /\ db_creates = 0
    /\ db_response = "none"
    /\ g_client_sessions = <<>>
    /\ g_rooms = <<>>
    /\ g_room_counter = RoomCounterStart
    /\ pc = <<>>
    /\ username = <<>>
    /\ data = <<>>
    /\ room_id = <<>>
    /\ session = <<>>
    /\ new_host = <<>>
    /\ out = NoOut
    /\ invite = NoInvite
    /\ sock_closed = {}
    /\ all_players_in_room = <<>>
    /\ host_at_copy = <<>>
    /\ unlinked = <<>>
    /\ notice = NoNotice
    /\ lobby_db = NoDb
    /\ request = NoRequest
    /\ DbOff
    /\ games = <<>>
    /\ ended = {}

\* the process is alive: main() has not reached the end of its finally block
Alive == lpc \notin {"off", "terminated"}

InputsPut ==
    Len(engine[0]) + Len(engine[1])
      + Cardinality({i \in 1..Len(input_queue) : input_queue[i][2] # "DISCONNECT"})

\* process_input: the engine operation an action string maps to
ProcessInput(action) ==
    CASE action = "MOVE_LEFT" -> <<"move_left">>
      [] action = "MOVE_RIGHT" -> <<"move_right">>
      [] action = "ROTATE" -> <<"rotate">>
      [] action = "SOFT_DROP" -> <<"soft_drop">>
      [] action = "HARD_DROP" -> <<"hard_drop">>
      [] OTHER -> <<>>

\* handle_client calling process_input on the seat's engine itself
RecvInput_Direct(p, a) ==
    /\ Alive /\ rstate[p] = "recv"
    /\ InputsPut < MaxInputs
    /\ engine' = [engine EXCEPT ![p] = @ \o ProcessInput(a)]
    /\ UNCHANGED <<input_queue, rstate, lpc, winner, game_over,
                   game_over_sent, db_creates, db_response,
                   lobbyVars, serviceVars, lockVars, dbVars>>

\* handle_client: an INPUT message with an action is put on the queue
RecvInput(p, a) ==
    /\ Alive /\ rstate[p] = "recv"
    /\ InputsPut < MaxInputs
    /\ input_queue' = Append(input_queue, <<p, a>>)
    /\ UNCHANGED <<rstate, lpc, winner, game_over, engine, game_over_sent,
                   db_creates, db_response,
                   lobbyVars, serviceVars,
                   lockVars, dbVars>>

\* handle_client: recv_msg returns None; (player_id, "DISCONNECT") is put and
\* the loop is left for the finally block
RecvEof(p) ==
    /\ Alive /\ rstate[p] = "recv"
    /\ input_queue' = Append(input_queue, <<p, "DISCONNECT">>)
    /\ rstate' = [rstate EXCEPT ![p] = "finally"]
    /\ UNCHANGED <<lpc, winner, game_over, engine, game_over_sent,
                   db_creates, db_response,
                   lobbyVars, serviceVars,
                   lockVars, dbVars>>

\* handle_client: recv_msg raises socket.error; the except clause only logs,
\* nothing is put on the queue
RecvError(p) ==
    /\ Alive /\ rstate[p] = "recv"
    /\ rstate' = [rstate EXCEPT ![p] = "finally"]
    /\ UNCHANGED <<input_queue, lpc, winner, game_over, engine,
                   game_over_sent, db_creates, db_response,
                   lobbyVars, serviceVars,
                   lockVars, dbVars>>

\* handle_client: finally: sock.close()
RecvClose(p) ==
    /\ Alive /\ rstate[p] = "finally"
    /\ rstate' = [rstate EXCEPT ![p] = "closed"]
    /\ UNCHANGED <<input_queue, lpc, winner, game_over, engine,
                   game_over_sent, db_creates, db_response,
                   lobbyVars, serviceVars,
                   lockVars, dbVars>>

\* winner = "P2" if player_id == 0 else "P1"
DisconnectWinner(player_id) == IF player_id = 0 THEN "P2" ELSE "P1"

\* TetrisGame.move / rotate / soft_drop / hard_drop: whether the command
\* leaves the engine with its game_over flag set is the engine's matter
EngineOver == BOOLEAN

\* game_loop taking the newest entry of the queue instead of the oldest
LoopGet_Newest ==
    /\ lpc = "drain" /\ input_queue # <<>>
    /\ LET player_id == input_queue[Len(input_queue)][1]
           action == input_queue[Len(input_queue)][2]
       IN  /\ input_queue' = SubSeq(input_queue, 1, Len(input_queue) - 1)
           /\ IF action = "DISCONNECT"
              THEN /\ winner' = DisconnectWinner(player_id)
                   /\ game_over' = [p \in Seats |-> TRUE]
                   /\ lpc' = "game_end"
                   /\ UNCHANGED engine
              ELSE /\ engine' = [engine EXCEPT
                                   ![player_id] = @ \o ProcessInput(action)]
                   /\ \E over \in EngineOver :
                        game_over' = [game_over EXCEPT
                                        ![player_id] = @ \/ over]
                   /\ UNCHANGED <<winner, lpc>>
    /\ UNCHANGED <<rstate, game_over_sent, db_creates, db_response,
                   lobbyVars, serviceVars,
                   lockVars, dbVars>>

\* game_loop: one input_queue.get_nowait() of the drain loop
LoopGet ==
    /\ lpc = "drain" /\ input_queue # <<>>
    /\ LET player_id == Head(input_queue)[1]
           action == Head(input_queue)[2]
       IN  /\ input_queue' = Tail(input_queue)
           /\ IF action = "DISCONNECT"
              THEN /\ winner' = DisconnectWinner(player_id)
                   /\ game_over' = [p \in Seats |-> TRUE]
                   /\ lpc' = "game_end"
                   /\ UNCHANGED engine
              ELSE /\ engine' = [engine EXCEPT
                                   ![player_id] = @ \o ProcessInput(action)]
                   /\ \E over \in EngineOver :
                        game_over' = [game_over EXCEPT
                                        ![player_id] = @ \/ over]
                   /\ UNCHANGED <<winner, lpc>>
    /\ UNCHANGED <<rstate, game_over_sent, db_creates, db_response,
                   lobbyVars, serviceVars,
                   lockVars, dbVars>>

\* game_loop: the drain loop ends on an empty queue and `if winner:` reads a
\* local that no statement has assigned: UnboundLocalError. It leaves
\* game_loop, main() logs it and its finally block closes the sockets.
LoopEmpty ==
    /\ lpc = "drain" /\ input_queue = <<>>
    /\ winner = "unbound"
    /\ lpc' = "terminated"
    /\ UNCHANGED <<input_queue, rstate, winner, game_over, engine,
                   game_over_sent, db_creates, db_response,
                   lobbyVars, serviceVars,
                   lockVars, dbVars>>

\* forward_to_db: the DB's answer with status ok, its answer with status
\* error, recv_msg returning None (db_server_no_response), or socket.error on
\* connect/send/recv (db_server_connection_error)
DbResponses == {"ok", "error", "no_response", "connection_error"}

\* handle_game_end submitting the GameLog again when the first answer was
\* not ok
ReportGameLog_Retry ==
    /\ lpc = "game_end"
    /\ db_creates' = db_creates + 1
    /\ \E response \in DbResponses :
         /\ db_response' = response
         /\ lpc' = IF response # "ok" /\ db_creates = 0
                   THEN "game_end" ELSE "send_0"
    /\ UNCHANGED <<input_queue, rstate, winner, game_over, engine,
                   game_over_sent, lobbyVars, serviceVars,
                   lockVars, dbVars>>

\* handle_game_end: the GameLog is built and submitted with forward_to_db,
\* whose answer is only logged
ReportGameLog ==
    /\ lpc = "game_end"
    /\ db_creates' = db_creates + 1
    /\ \E response \in DbResponses : db_response' = response
    /\ lpc' = "send_0"
    /\ UNCHANGED <<input_queue, rstate, winner, game_over, engine,
                   game_over_sent, lobbyVars, serviceVars,
                   lockVars, dbVars>>

\* protocol.send_msg on clients[p]: fails on a socket the receiver thread has
\* closed; on one whose peer is gone it may fail or still be accepted
SendFails(p) ==
    CASE rstate[p] = "closed" -> {TRUE}
      [] rstate[p] = "finally" -> {TRUE, FALSE}
      [] OTHER -> {FALSE}

\* handle_game_end: `for sock in list(clients)` inside one try: the first
\* send that raises ends the whole loop
SendGameOver(p) ==
    /\ lpc = IF p = 0 THEN "send_0" ELSE "send_1"
    /\ \E fails \in SendFails(p) :
         IF fails
         THEN /\ lpc' = "finally"
              /\ UNCHANGED game_over_sent
         ELSE /\ game_over_sent' = [game_over_sent EXCEPT ![p] = @ + 1]
              /\ lpc' = IF p = 0 THEN "send_1" ELSE "finally"
    /\ UNCHANGED <<input_queue, rstate, winner, game_over, engine,
                   db_creates, db_response,
                   lobbyVars, serviceVars,
                   lockVars, dbVars>>

\* main: finally: every client socket and the server socket are closed
MainFinally ==
    /\ lpc = "finally"
    /\ lpc' = "terminated"
    /\ UNCHANGED <<input_queue, rstate, winner, game_over, engine,
                   game_over_sent, db_creates, db_response,
                   lobbyVars, serviceVars,
                   lockVars, dbVars>>

LoopNext ==
    \/ \E p \in Seats, a \in Actions : RecvInput(p, a)
    \/ \E p \in Seats : RecvEof(p)
    \/ \E p \in Seats : RecvError(p)
    \/ \E p \in Seats : RecvClose(p)
    \/ LoopGet
    \/ LoopEmpty
    \/ ReportGameLog
    \/ \E p \in Seats : SendGameOver(p)
    \/ MainFinally

LoopSpec == LoopInit /\ [][LoopNext]_vars

Next ==
    \/ \E c \in Conns, u \in Users : Login(c, u)
    \/ \E c \in Conns : LoginInsert(c)
    \/ \E c \in Conns : EndConnection(c)
    \/ \E c \in Conns : LogoutPop(c)
    \/ \E c \in Conns : LogoutRoom(c)
    \/ \E c \in Conns : LogoutNotify(c)
    \/ \E c \in Conns : CreateRoom(c)
    \/ \E c \in Conns : CreateRoomAlloc(c)
    \/ \E c \in Conns : CreateRoomStatus(c)
    \/ \E c \in Conns, r \in RoomIds : JoinRoom(c, r)
    \/ \E c \in Conns : JoinRoomLock(c)
    \/ \E c \in Conns : JoinRoomStatus(c)
    \/ \E c \in Conns : JoinRoomNotify(c)
    \/ \E c \in Conns, t \in Users \cup {0} : Invite(c, t)
    \/ \E c \in Conns : StartGame(c)
    \/ \E c \in Conns : StartGameLock(c)
    \/ \E i \in 1..Len(games) : GsBind(i)
    \/ \E i \in 1..Len(games) : GsAccept(i)
    \/ \E i \in 1..Len(games) : GsWelcome(i)

Spec == Init /\ [][Next]_vars

\* ================================================ handle_client: dispatch
\* What recv_msg hands to handle_client: bytes that json.loads rejects
\* ("invalid_json"), a JSON value that is not an object ("not_object"), or
\* an object with some `action` and a `data` that is an object carrying the
\* fields of the action ("fields"), an object without them ("no_fields"), or
\* not an object ("not_dict").
OtherActions == {"list_rooms", "create_room", "none"}
RequestActions == {"register", "login", "logout"} \cup OtherActions
DataShapes == {"fields", "no_fields", "not_dict"}

Frames(c) ==
    [on : {c}, envelope : {"invalid_json", "not_object"}, action : {""},
     data : {""}]
    \cup [on : {c}, envelope : {"object"}, action : RequestActions,
          data : DataShapes]

\* what handle_register hands back for a request with both fields: the
\* answer of the DB to User.create, or the error dict of forward_to_db
RegisterResponses ==
    {"ok", "user_exists", "db_server_no_response",
     "db_server_connection_error", "db_server_bad_response"}

\* an exception leaves the loop of handle_client through `except Exception`;
\* the finally block closes the socket of an unauthenticated connection and
\* calls handle_logout for an authenticated one
Raise(c) ==
    IF username[c] = 0
    THEN /\ Closed(c) /\ CloseSocks(c, 0) /\ Confirm(0)
         /\ lobby_db' = NoDb
         /\ UNCHANGED g_client_sessions
    ELSE PopSession(c)

\* a reply and back to recv_msg
Reply(c, r) ==
    /\ Return(c, r)
    /\ UNCHANGED <<g_client_sessions, username, session, new_host,
                   sock_closed>>

\* handle_client, steps 1 to 3, for a frame that is not handed to one of the
\* handlers modelled above: parsing, request.get on the parsed value, and the
\* dispatch of an unauthenticated connection (register, login without usable
\* data, logout, anything else)
Receive(c, req) ==
    /\ pc[c] = "recv" /\ c \notin sock_closed
    /\ req \in Frames(c)
    /\ request' = req
    /\ IF req.envelope = "invalid_json"
       THEN Reply(c, "invalid_json_format") /\ lobby_db' = NoDb
       ELSE IF req.envelope = "not_object"
       THEN Raise(c)
       ELSE /\ username[c] = 0
            /\ ~(req.action = "login" /\ req.data = "fields")
            /\ IF req.action \in {"register", "login"}
               THEN IF req.data = "not_dict"
                    THEN Raise(c)
                    ELSE IF req.data = "no_fields"
                    THEN Reply(c, "missing_fields") /\ lobby_db' = NoDb
                    ELSE \E response \in RegisterResponses :
                           /\ Reply(c, response)
                           /\ lobby_db' =
                                [NoDb EXCEPT !.db_response = response]
               ELSE IF req.action = "logout"
               THEN Raise(c)
               ELSE Reply(c, "must_be_logged_in") /\ lobby_db' = NoDb
    /\ UNCHANGED <<g_rooms, g_room_counter, games, ended, loopVars, lockVars, dbVars>>
    /\ notice' = NoNotice
    /\ UNCHANGED unlinked

DispatchNext ==
    \/ \E c \in Conns : \E req \in Frames(c) : Receive(c, req)
    \/ \E c \in Conns, u \in Users : Login(c, u)
    \/ \E c \in Conns : LoginInsert(c)
    \/ \E c \in Conns : EndConnection(c)
    \/ \E c \in Conns : CreateRoom(c)
    \/ \E c \in Conns : CreateRoomAlloc(c)
    \/ \E c \in Conns : CreateRoomStatus(c)
    \/ \E c \in Conns : LogoutRoom(c)

DispatchSpec == Init /\ [][DispatchNext]_vars

\* ========================================================== db_server.py
\* One thread per accepted connection, one request per connection. db_lock
\* is held inside load_db and inside save_db, not between them.
DbClients == 1..NDbClients

NoDbRequest == [collection |-> "", action |-> "", username |-> 0,
                status |-> "", matchid |-> 0]
DbIdle == [pc |-> "accept", request |-> NoDbRequest, loaded |-> <<>>,
           response |-> ""]

\* the requests a connection may carry: User.create and User.update for a
\* username, and GameLog.create with a log (named by its matchid, here the
\* connection's number)
DbRequests(t) ==
    [collection : {"User"}, action : {"create"}, username : Users,
     status : {""}, matchid : {0}]
    \cup [collection : {"User"}, action : {"update"}, username : Users,
          status : {"online", "offline"}, matchid : {0}]
    \cup [collection : {"GameLog"}, action : {"create"}, username : {0},
          status : {""}, matchid : {t}]

DbInit ==
    /\ LoopOff
    /\ LockOff
    /\ users_json = <<>>
    /\ gamelogs_json = <<>>
    /\ db_thread = [t \in DbClients |-> DbIdle]
    /\ g_client_sessions = <<>>
    /\ g_rooms = <<>>
    /\ g_room_counter = RoomCounterStart
    /\ pc = <<>>
    /\ username = <<>>
    /\ data = <<>>
    /\ room_id = <<>>
    /\ session = <<>>
    /\ new_host = <<>>
    /\ out = NoOut
    /\ invite = NoInvite
    /\ sock_closed = {}
    /\ all_players_in_room = <<>>
    /\ host_at_copy = <<>>
    /\ unlinked = <<>>
    /\ notice = NoNotice
    /\ lobby_db = NoDb
    /\ request = NoRequest
    /\ games = <<>>
    /\ ended = {}

\* handle_client: recv_msg and json.loads give the request
DbReceive(t, req) ==
    /\ db_thread[t].pc = "accept"
    /\ req \in DbRequests(t)
    /\ db_thread' = [db_thread EXCEPT ![t].pc = "load", ![t].request = req]
    /\ UNCHANGED <<users_json, gamelogs_json, lobbyVars, serviceVars,
                   loopVars, lockVars>>

\* process_request: users = load_db(USER_DB_FILE) or
\* logs = load_db(GAMELOG_DB_FILE), the file read under db_lock
DbLoad(t) ==
    /\ db_thread[t].pc = "load"
    /\ db_thread' = [db_thread EXCEPT
                       ![t].pc = "process",
                       ![t].loaded =
                          IF db_thread[t].request.collection = "User"
                          THEN users_json ELSE gamelogs_json]
    /\ UNCHANGED <<users_json, gamelogs_json, lobbyVars, serviceVars,
                   loopVars, lockVars>>

\* process_request on the loaded data: what is written back with save_db
\* (written = FALSE: nothing is saved) and the reason of the response
DbOutcome(req, loaded) ==
    IF req.collection = "GameLog"
    THEN [written |-> TRUE, content |-> Append(loaded, req.matchid),
          response |-> "ok"]
    ELSE IF req.action = "create"
    THEN IF req.username \in DOMAIN loaded
         THEN [written |-> FALSE, content |-> loaded,
               response |-> "user_exists"]
         ELSE [written |-> TRUE,
               content |-> DictPut(loaded, req.username,
                                   [password |-> "pw", status |-> "offline"]),
               response |-> "ok"]
    ELSE IF req.username \notin DOMAIN loaded
         THEN [written |-> FALSE, content |-> loaded,
               response |-> "user_not_found"]
         ELSE [written |-> TRUE,
               content |-> DictPut(loaded, req.username,
                                   [loaded[req.username] EXCEPT
                                       !.status = req.status]),
               response |-> "ok"]

\* process_request after the load: the checks and the change are made on the
\* thread's own copy, save_db writes the whole copy back under db_lock, and
\* handle_client sends the response and closes the connection
DbProcess(t) ==
    /\ db_thread[t].pc = "process"
    /\ LET res == DbOutcome(db_thread[t].request, db_thread[t].loaded) IN
       /\ db_thread' = [db_thread EXCEPT ![t].pc = "done",
                                         ![t].response = res.response]
       /\ IF res.written /\ db_thread[t].request.collection = "User"
          THEN users_json' = res.content /\ UNCHANGED gamelogs_json
          ELSE IF res.written
          THEN gamelogs_json' = res.content /\ UNCHANGED users_json
          ELSE UNCHANGED <<users_json, gamelogs_json>>
    /\ UNCHANGED <<lobbyVars, serviceVars, loopVars, lockVars>>

DbNext ==
    \/ \E t \in DbClients : \E req \in DbRequests(t) : DbReceive(t, req)
    \/ \E t \in DbClients : DbLoad(t)
    \/ \E t \in DbClients : DbProcess(t)

DbSpec == DbInit /\ [][DbNext]_vars

\* ============================================== start_game on two rooms
\* NLaunchRooms rooms, each full and idle: room k has host 2k-1 and player
\* 2k, every user is logged in on the connection of the same number, and
\* nothing has been launched yet.
NLaunchRooms == 2
LaunchConns == 1..(2 * NLaunchRooms)
LaunchRoom(c) == RoomCounterStart + ((c + 1) \div 2) - 1

LaunchInit ==
    /\ LoopOff
    /\ LockOff
    /\ DbOff
    /\ g_client_sessions =
         [u \in LaunchConns |-> [sock |-> u, status |-> InRoom(LaunchRoom(u))]]
    /\ g_rooms =
         [r \in RoomCounterStart..(RoomCounterStart + NLaunchRooms - 1) |->
            LET k == r - RoomCounterStart + 1 IN
            [host |-> 2 * k - 1, players |-> <<2 * k - 1, 2 * k>>,
             status |-> "idle"]]
    /\ g_room_counter = RoomCounterStart + NLaunchRooms
    /\ pc = [c \in LaunchConns |-> "recv"]
    /\ username = [c \in LaunchConns |-> c]
    /\ data = [c \in LaunchConns |-> 0]
    /\ room_id = [c \in LaunchConns |-> 0]
    /\ session = [c \in LaunchConns |-> NoSessionLocal]
    /\ new_host = [c \in LaunchConns |-> 0]
    /\ out = NoOut
    /\ invite = NoInvite
    /\ sock_closed = {}
    /\ all_players_in_room = [c \in LaunchConns |-> <<>>]
    /\ host_at_copy = [c \in LaunchConns |-> 0]
    /\ unlinked = <<>>
    /\ notice = NoNotice
    /\ lobby_db = NoDb
    /\ request = NoRequest
    /\ games = <<>>
    /\ ended = {}

LaunchNext ==
    \/ \E c \in LaunchConns : StartGame(c)
    \/ \E c \in LaunchConns : StartGameLock(c)
    \/ \E i \in 1..Len(games) : GsBind(i)
    \/ \E i \in 1..Len(games) : GsAccept(i)
    \/ \E i \in 1..Len(games) : GsWelcome(i)

LaunchSpec == LaunchInit /\ [][LaunchNext]_vars

\* =============================================== join_room requests racing
\* The host (connection 1, user 1) has created room RaceRoom and is alone in
\* it; users 2..NRacers+1 are logged in and Online, each on the connection of
\* the same number, and each has sent join_room{room_id: RaceRoom}: its
\* thread has passed the status check of handle_join_room and is about to
\* take g_room_lock. A user may send join_room again after its answer.
RaceRoom == RoomCounterStart
RaceConns == 1..(NRacers + 1)
Racers == 2..(NRacers + 1)

RaceInit ==
    /\ LoopOff
    /\ LockOff
    /\ g_client_sessions =
         [u \in RaceConns |->
            [sock |-> u, status |-> IF u = 1 THEN InRoom(RaceRoom) ELSE Online]]
    /\ g_rooms = [r \in {RaceRoom} |->
                    [host |-> 1, players |-> <<1>>, status |-> "idle"]]
    /\ g_room_counter = RaceRoom + 1
    /\ pc = [c \in RaceConns |-> IF c = 1 THEN "recv" ELSE "join_room_lock"]
    /\ username = [c \in RaceConns |-> c]
    /\ data = [c \in RaceConns |-> 0]
    /\ room_id = [c \in RaceConns |-> IF c = 1 THEN 0 ELSE RaceRoom]
    /\ session = [c \in RaceConns |-> NoSessionLocal]
    /\ new_host = [c \in RaceConns |-> 0]
    /\ out = NoOut
    /\ invite = NoInvite
    /\ sock_closed = {}
    /\ all_players_in_room = [c \in RaceConns |-> <<>>]
    /\ host_at_copy = [c \in RaceConns |-> 0]
    /\ unlinked = <<>>
    /\ notice = NoNotice
    /\ lobby_db = NoDb
    /\ request = NoRequest
    /\ DbOff
    /\ games = <<>>
    /\ ended = {}

RaceNext ==
    \/ \E c \in Racers : JoinRoom(c, RaceRoom)
    \/ \E c \in Racers : JoinRoomLock(c)
    \/ \E c \in Racers : JoinRoomStatus(c)
    \/ \E c \in Racers : JoinRoomNotify(c)

RaceSpec == RaceInit /\ [][RaceNext]_vars

\* ============================================ the lobby's two registry locks
\* LockSpec looks at the handlers of lobby_server.py at the level of their
\* lock operations and external calls. Each handler is the set of its control
\* paths, a path being the sequence of
\*   lock_s / unlock_s   entering / leaving `with g_session_lock`
\*   lock_r / unlock_r   entering / leaving `with g_room_lock`
\*   send                send_to_client
\*   db                  forward_to_db (a persistence round trip)
\*   probe               find_free_port
\*   spawn               subprocess.Popen of game_server.py
\*   close               socket.close()
\* in program order; a return inside a with block leaves the block after the
\* statements before it. Which path a request takes depends on the registries;
\* here every path can be taken at any time.
LockThreads == 1..NLockThreads

LoginPaths ==
    { <<"send">>,
      <<"lock_s", "send", "unlock_s">>,
      <<"lock_s", "unlock_s", "db", "send">>,
      <<"lock_s", "unlock_s", "db", "lock_s", "unlock_s", "db", "send">> }

\* handle_logout with the session held while g_room_lock is taken
LogoutPaths_Nested ==
    { <<"lock_s", "unlock_s">>,
      <<"lock_s", "db", "lock_r", "unlock_r", "unlock_s", "send", "close">> }

LogoutPaths ==
    { <<"lock_s", "unlock_s">>,
      <<"lock_s", "unlock_s", "db", "send", "close">>,
      <<"lock_s", "unlock_s", "db", "lock_r", "unlock_r", "send", "close">>,
      <<"lock_s", "unlock_s", "db", "lock_r", "unlock_r",
        "lock_s", "unlock_s", "send", "close">>,
      <<"lock_s", "unlock_s", "db", "lock_r", "unlock_r",
        "lock_s", "send", "unlock_s", "send", "close">> }

CreateRoomPaths ==
    { <<"lock_s", "send", "unlock_s">>,
      <<"lock_s", "unlock_s", "lock_r", "unlock_r", "lock_s", "unlock_s">>,
      <<"lock_s", "unlock_s", "lock_r", "unlock_r", "lock_s", "unlock_s",
        "send">> }

JoinRoomPaths ==
    { <<"send">>,
      <<"lock_s", "send", "unlock_s">>,
      <<"lock_s", "unlock_s", "lock_r", "send", "unlock_r">>,
      <<"lock_s", "unlock_s", "lock_r", "unlock_r", "lock_s", "unlock_s">>,
      <<"lock_s", "unlock_s", "lock_r", "unlock_r", "lock_s", "unlock_s",
        "lock_s", "send", "unlock_s">>,
      <<"lock_s", "unlock_s", "lock_r", "unlock_r", "lock_s", "unlock_s",
        "lock_s", "send", "send", "unlock_s">> }

InvitePaths ==
    { <<"send">>,
      <<"lock_s", "send", "unlock_s">>,
      <<"lock_s", "unlock_s", "send">>,
      <<"lock_s", "unlock_s", "send", "send">> }

StartGamePaths ==
    { <<"lock_s", "unlock_s", "send">>,
      <<"lock_s", "unlock_s", "lock_r", "send", "unlock_r">>,
      <<"lock_s", "unlock_s", "lock_r", "probe", "send", "unlock_r">>,
      <<"lock_s", "unlock_s", "lock_r", "probe", "spawn", "send", "unlock_r">>,
      <<"lock_s", "unlock_s", "lock_r", "probe", "spawn",
        "lock_s", "unlock_s", "unlock_r">>,
      <<"lock_s", "unlock_s", "lock_r", "probe", "spawn",
        "lock_s", "send", "unlock_s", "unlock_r">>,
      <<"lock_s", "unlock_s", "lock_r", "probe", "spawn",
        "lock_s", "send", "send", "unlock_s", "unlock_r">> }

ListPaths ==
    { <<"lock_r", "unlock_r", "send">>,
      <<"lock_s", "unlock_s", "send">> }

RegisterPaths == { <<"db", "send">> }

HandlerPaths ==
    LoginPaths \cup LogoutPaths \cup CreateRoomPaths \cup JoinRoomPaths
      \cup InvitePaths \cup StartGamePaths \cup ListPaths \cup RegisterPaths

\* the thread is in recv_msg, between two requests
LkIdle == [path |-> <<>>, i |-> 1]

LockInit ==
    /\ LoopOff
    /\ g_client_sessions = <<>>
    /\ g_rooms = <<>>
    /\ g_room_counter = RoomCounterStart
    /\ pc = <<>>
    /\ username = <<>>
    /\ data = <<>>
    /\ room_id = <<>>
    /\ session = <<>>
    /\ new_host = <<>>
    /\ out = NoOut
    /\ invite = NoInvite
    /\ sock_closed = {}
    /\ all_players_in_room = <<>>
    /\ host_at_copy = <<>>
    /\ unlinked = <<>>
    /\ notice = NoNotice
    /\ lobby_db = NoDb
    /\ request = NoRequest
    /\ DbOff
    /\ games = <<>>
    /\ ended = {}
    /\ g_session_lock = 0
    /\ g_room_lock = 0
    /\ lk = [t \in LockThreads |-> LkIdle]

NextOp(t) ==
    IF lk[t].i <= Len(lk[t].path) THEN lk[t].path[lk[t].i] ELSE "none"

Advance(t) ==
    lk' = [lk EXCEPT ![t] = IF lk[t].i >= Len(lk[t].path)
                            THEN LkIdle
                            ELSE [lk[t] EXCEPT !.i = @ + 1]]

\* handle_client dispatches a request to its handler
LkRequest(t, path) ==
    /\ lk[t] = LkIdle
    /\ lk' = [lk EXCEPT ![t] = [path |-> path, i |-> 1]]
    /\ UNCHANGED <<g_session_lock, g_room_lock, lobbyVars, serviceVars,
                   loopVars, dbVars>>

\* threading.Lock: `with lock` blocks until the lock is free, also when the
\* holder is the thread itself
LkAcquire(t) ==
    /\ \/ /\ NextOp(t) = "lock_s" /\ g_session_lock = 0
          /\ g_session_lock' = t /\ UNCHANGED g_room_lock
       \/ /\ NextOp(t) = "lock_r" /\ g_room_lock = 0
          /\ g_room_lock' = t /\ UNCHANGED g_session_lock
    /\ Advance(t)
    /\ UNCHANGED <<lobbyVars, serviceVars, loopVars, dbVars>>

LkRelease(t) ==
    /\ \/ /\ NextOp(t) = "unlock_s"
          /\ g_session_lock' = 0 /\ UNCHANGED g_room_lock
       \/ /\ NextOp(t) = "unlock_r"
          /\ g_room_lock' = 0 /\ UNCHANGED g_session_lock
    /\ Advance(t)
    /\ UNCHANGED <<lobbyVars, serviceVars, loopVars, dbVars>>

ExternalCalls == {"send", "db", "probe", "spawn"}

LkExternal(t) ==
    /\ NextOp(t) \in ExternalCalls \cup {"close"}
    /\ Advance(t)
    /\ UNCHANGED <<g_session_lock, g_room_lock, lobbyVars, serviceVars,
                   loopVars, dbVars>>

LockNext ==
    \/ \E t \in LockThreads, path \in HandlerPaths : LkRequest(t, path)
    \/ \E t \in LockThreads : LkAcquire(t)
    \/ \E t \in LockThreads : LkRelease(t)
    \/ \E t \in LockThreads : LkExternal(t)

LockSpec == LockInit /\ [][LockNext]_vars

\* ================================================================ claims

RoomWellFormed(room) ==
    /\ Len(room.players) >= 1
    /\ Len(room.players) <= 2
    /\ InList(room.players, room.host)

\* C1: whenever g_room_lock is free (every state of Spec: a section under the
\* lock is one step), every room of g_rooms has 1 or 2 players and its host
\* is one of them.
C1_RoomInvariant ==
    \A r \in DOMAIN g_rooms : RoomWellFormed(g_rooms[r])

\* C1's case: a room that was created, joined and started, whose host then
\* left, so that the remaining player was promoted.
C1_Witness ==
    \E r \in DOMAIN g_rooms, c \in DOMAIN pc :
        /\ pc[c] = "logout_notify"
        /\ g_rooms[r].status = "playing"
        /\ g_rooms[r].host = new_host[c]
        /\ Len(g_rooms[r].players) = 1

RaceDone == \A c \in Racers : pc[c] = "recv"
Admitted == {c \in Racers : InList(g_rooms[RaceRoom].players, username[c])}

\* C2: in every interleaving of the racing join_room requests (RaceSpec) the
\* room never holds more than 2 players, once every request is answered
\* exactly one racer is in the room, and every request that is turned away at
\* the room is answered room_is_full.
C2_JoinRace ==
    /\ [](/\ Len(g_rooms[RaceRoom].players) <= 2
          /\ (RaceDone => Cardinality(Admitted) = 1))
    /\ [][\A c \in Racers :
            (pc[c] = "join_room_lock" /\ pc'[c] = "recv")
               => out' = [to |-> c, reason |-> "room_is_full"]]_vars

\* C2's case: the race is over, one racer is in and the latest answer was
\* room_is_full.
C2_Witness ==
    /\ RaceDone
    /\ Cardinality(Admitted) = 1
    /\ out.reason = "room_is_full"

\* a connection that is logged in and not being cleaned up
Authenticated(c) ==
    /\ username[c] # 0
    /\ pc[c] \notin {"logout_pop", "logout_room", "logout_notify", "closed"}

\* C3: at no time are two connections authenticated as the same user.
C3_SingleLogin ==
    \A c1 \in DOMAIN pc, c2 \in DOMAIN pc :
        (c1 # c2 /\ Authenticated(c1) /\ Authenticated(c2))
            => username[c1] # username[c2]

\* after the step, some connection other than c is logged in as u or is
\* logging in as u
OtherConnAfter(u, c) ==
    \E c2 \in DOMAIN pc : c2 # c /\ (username'[c2] = u \/ data'[c2] = u)

\* C4: when the cleanup of a logged-in connection finishes, every room is
\* well formed and, unless another connection holds or is taking the same
\* username, the username is in no session and in no room's players.
C4_CleanupComplete ==
    [][\A c \in DOMAIN pc :
         (pc[c] # "closed" /\ pc'[c] = "closed" /\ username[c] # 0) =>
            /\ \A r \in DOMAIN g_rooms' : RoomWellFormed(g_rooms'[r])
            /\ (~OtherConnAfter(username[c], c)) =>
                 /\ username[c] \notin DOMAIN g_client_sessions'
                 /\ \A r \in DOMAIN g_rooms' :
                      ~InList(g_rooms'[r].players, username[c])]_vars

\* C5: a step of handle_logout's room section that leaves the room in place
\* keeps the host when the leaver was not the host, and otherwise makes the
\* first of the remaining players, a member from before, the host.
C5_HostAfterLeave ==
    [][\A c \in DOMAIN pc :
         LET r == session[c].status.room_id
             u == username[c]
         IN  (/\ pc[c] = "logout_room" /\ pc'[c] # "logout_room"
              /\ r \in DOMAIN g_rooms /\ r \in DOMAIN g_rooms') =>
                IF g_rooms[r].host # u
                THEN g_rooms'[r].host = g_rooms[r].host
                ELSE /\ g_rooms'[r].host = g_rooms'[r].players[1]
                     /\ InList(g_rooms[r].players, g_rooms'[r].host)]_vars

\* C5's case: the host of a two-player room has left and the other player is
\* now host.
C5_Witness ==
    \E r \in DOMAIN g_rooms, c \in DOMAIN pc :
        /\ pc[c] = "logout_notify"
        /\ session[c].status.room_id = r
        /\ new_host[c] # username[c]
        /\ g_rooms[r].host = new_host[c]
        /\ g_rooms[r].players = <<new_host[c]>>

\* C6: a step that launches a game server is made by the host of an existing
\* room with exactly 2 players and status idle.
C6_StartOnlyIdle ==
    [][\A c \in DOMAIN pc :
         (pc[c] = "start_game_lock" /\ Len(games') > Len(games)) =>
            /\ room_id[c] \in DOMAIN g_rooms
            /\ g_rooms[room_id[c]].host = username[c]
            /\ Len(g_rooms[room_id[c]].players) = 2
            /\ g_rooms[room_id[c]].status = "idle"]_vars

\* C7: a step that turns a room from idle to playing has sent two GAME_START
\* messages (they carry the one port of the launched game server), one to a
\* connection of each of the room's two players.
C7_BothNotified ==
    [][\A c \in DOMAIN pc :
         LET r == room_id[c] IN
         (/\ pc[c] = "start_game_lock"
          /\ r \in DOMAIN g_rooms /\ r \in DOMAIN g_rooms'
          /\ g_rooms[r].status = "idle" /\ g_rooms'[r].status = "playing") =>
            LET sent == games'[Len(games')].sent IN
            /\ Len(sent) = 2
            /\ \A k \in 1..2 : \E i \in 1..Len(sent) :
                   username[sent[i]] = g_rooms[r].players[k]]_vars

SeatName(p) == IF p = 0 THEN "P1" ELSE "P2"

\* C8: when the match was ended by the Disconnected entry of seat p while the
\* other seat's connection is open, then at termination the winner is the
\* other seat and that seat has been sent GAME_OVER; for p = P1 and p = P2.
C8_DisconnectWin ==
    \A p \in Seats :
        (/\ lpc = "terminated" /\ winner # "unbound"
         /\ rstate[p] # "recv" /\ rstate[Other(p)] = "recv") =>
            /\ winner = SeatName(Other(p))
            /\ game_over_sent[Other(p)] = 1

\* no lobby thread is inside a handler
Quiescent == \A c \in DOMAIN pc : pc[c] \in {"recv", "closed"}

\* C9: once the game server of a room has exited, the lobby, left to itself
\* (no handler running, so nothing happens without a new request), has the
\* presence of every player of the room that still has a session at Online.
C9_BackOnline ==
    \A r \in ended :
        (/\ r \in DOMAIN g_rooms /\ Quiescent
         /\ \A i \in 1..Len(games) : games[i].room # r) =>
            \A k \in 1..Len(g_rooms[r].players) :
                LET u == g_rooms[r].players[k] IN
                u \in DOMAIN g_client_sessions
                    => g_client_sessions[u].status = Online

\* C10: when the game server of a match with two accepted seats has
\* terminated, every seat whose connection is still open has been sent
\* exactly one GAME_OVER.
C10_OneGameOver ==
    lpc = "terminated" =>
        \A p \in Seats : rstate[p] = "recv" => game_over_sent[p] = 1

\* C11: in every run of a match (inputs, disconnects of either or both
\* seats, in any order) GameLog.create is submitted at most once.
C11_GameLogOnce == db_creates <= 1

\* C11's case: the match is over, both seats have disconnected and their
\* Disconnected entries were both queued, and the GameLog was submitted.
C11_Witness ==
    /\ lpc = "terminated"
    /\ db_creates = 1
    /\ \A p \in Seats : rstate[p] # "recv"
    /\ \E i \in 1..Len(input_queue) : input_queue[i][2] = "DISCONNECT"

\* C12: a Game Service that has accepted a connection ends only after it has
\* accepted two, has sent WELCOME with seat P1 to the first and WELCOME with
\* seat P2 to the second, both with the same seed, and has entered its loop.
C12_WelcomeThenRun ==
    [][\A i \in 1..Len(games) :
         (games[i].clients > 0 /\ games' = RemoveAt(games, i)) =>
            /\ games[i].clients = 2
            /\ Len(games[i].welcome) = 2
            /\ games[i].welcome[1].role = "P1"
            /\ games[i].welcome[2].role = "P2"
            /\ games[i].welcome[1].seed = games[i].welcome[2].seed
            /\ games[i].st = "running"]_vars

\* the registry locks thread t holds, in the order it took them
RECURSIVE HeldAfter(_, _)
HeldAfter(path, n) ==
    IF n = 0 THEN <<>>
    ELSE LET h == HeldAfter(path, n - 1)
             op == path[n]
         IN  CASE op = "lock_s" -> Append(h, "session")
               [] op = "lock_r" -> Append(h, "room")
               [] op = "unlock_s" -> SelectSeq(h, LAMBDA l : l # "session")
               [] op = "unlock_r" -> SelectSeq(h, LAMBDA l : l # "room")
               [] OTHER -> h

HeldNow(t) == HeldAfter(lk[t].path, lk[t].i - 1)

\* C13: a lobby thread about to send to a client, to make a persistence
\* round trip, to probe a port or to spawn a Game Service holds neither the
\* session lock nor the room lock.
C13_NoLockAcrossIO ==
    \A t \in DOMAIN lk :
        NextOp(t) \in ExternalCalls => HeldNow(t) = <<>>

\* thread t1 is blocked on a lock that thread t2 holds
WaitsFor(t1, t2) ==
    \/ NextOp(t1) = "lock_s" /\ g_session_lock = t2
    \/ NextOp(t1) = "lock_r" /\ g_room_lock = t2

\* C14: a thread that holds both registry locks took the room lock first, and
\* no state has a thread blocked on a lock it holds itself or two threads each
\* blocked on a lock the other holds.
C14_LockOrder ==
    /\ \A t \in DOMAIN lk :
          Len(HeldNow(t)) = 2 => HeldNow(t) = <<"room", "session">>
    /\ \A t1 \in DOMAIN lk, t2 \in DOMAIN lk :
          ~(WaitsFor(t1, t2) /\ WaitsFor(t2, t1))

\* C14's case: a thread holds both locks (start_game notifying the players)
\* while another one is blocked on one of them.
C14_Witness ==
    \E t1 \in DOMAIN lk, t2 \in DOMAIN lk :
        /\ t1 # t2
        /\ HeldNow(t1) = <<"room", "session">>
        /\ g_room_lock = t1 /\ g_session_lock = t1
        /\ WaitsFor(t2, t1)

\* C15: when the GameLog.create submission failed (error answer, closed
\* connection or persistence unreachable), the Game Service still terminates
\* with GAME_OVER sent to every seat whose connection is open.
C15_SettlesWithoutDb ==
    (lpc = "terminated" /\ db_response \in DbResponses \ {"ok"}) =>
        \A p \in Seats : rstate[p] = "recv" => game_over_sent[p] = 1

InviterInRoom(u) ==
    /\ u \in DOMAIN g_client_sessions
    /\ g_client_sessions[u].status.tag = "in_room"

\* C17: a step that handles an invite of inviter u for target t (both named)
\* pushes INVITE_RECEIVED and acks with invite_sent exactly when u is in a
\* room, t is another user, t has a session and t's presence is Online; the
\* push then goes to t's connection with from_user u and the room of u.
\* Otherwise nothing is pushed and the reply is cannot_invite_self,
\* not_in_a_room, user_not_online or user_is_busy, each only when the
\* condition it names has failed.
C17_Invite ==
    [][(invite'.target_user # 0 /\ games' = games /\ ended' = ended) =>
         LET u == invite'.from_user
             t == invite'.target_user
             r == out'.reason
             ok == /\ t # u
                   /\ InviterInRoom(u)
                   /\ t \in DOMAIN g_client_sessions
                   /\ g_client_sessions[t].status = Online
         IN  /\ out'.to # 0 /\ username[out'.to] = u
             /\ (r = "invite_sent") <=> ok
             /\ (invite'.sock # 0) <=> ok
             /\ ok => /\ invite'.sock = g_client_sessions[t].sock
                       /\ invite'.room_id = g_client_sessions[u].status.room_id
             /\ r \in {"invite_sent", "cannot_invite_self", "not_in_a_room",
                        "user_not_online", "user_is_busy"}
             /\ (r = "cannot_invite_self") => t = u
             /\ (r = "not_in_a_room") => ~InviterInRoom(u)
             /\ (r = "user_not_online") => t \notin DOMAIN g_client_sessions
             /\ (r = "user_is_busy") =>
                    /\ t \in DOMAIN g_client_sessions
                    /\ g_client_sessions[t].status # Online]_vars

\* C17's case: an invite into an existing room was pushed and acknowledged.
C17_Witness ==
    /\ invite.sock # 0
    /\ out.reason = "invite_sent"
    /\ invite.room_id \in DOMAIN g_rooms

ConflictReasons ==
    {"room_is_full", "room_is_playing", "room_not_found", "not_room_host",
     "room_not_full", "already_in_a_room", "not_in_a_room"}

\* C16: the step in which create_room, join_room, invite or start_game is
\* answered with one of the conflict reasons, and the step of the same
\* request before it (the status check that lets join_room or start_game go
\* on to the room lock), leave g_client_sessions, g_rooms and g_room_counter
\* as they were.
C16_ErrorsKeepState ==
    [][( \/ out'.reason \in ConflictReasons
         \/ \E c \in DOMAIN pc :
               /\ pc[c] = "recv"
               /\ pc'[c] \in {"join_room_lock", "start_game_lock"} ) =>
          /\ g_client_sessions' = g_client_sessions
          /\ g_rooms' = g_rooms
          /\ g_room_counter' = g_room_counter]_vars

\* C16's case: a join_room was just turned away from a room with two players.
C16_Witness ==
    /\ out.reason = "room_is_full"
    /\ \E r \in DOMAIN g_rooms : Len(g_rooms[r].players) = 2
    /\ \A c \in DOMAIN pc : pc[c] \in {"recv", "closed"}

\* a step of a receiver thread: its state changes or the queue grows
ReceiverStep == rstate' # rstate \/ Len(input_queue') > Len(input_queue)

\* C18: a step of a receiver thread only appends one (seat, action) or
\* (seat, DISCONNECT) entry to the queue, or nothing, and leaves both engines
\* and their game-over flags alone; every step that changes an engine or a
\* flag is a step of the loop thread taking the head of the queue.
C18_OnlyLoopMutates ==
    [][/\ ReceiverStep =>
            /\ engine' = engine /\ game_over' = game_over
            /\ \/ input_queue' = input_queue
               \/ \E p \in Seats, a \in Actions \cup {"DISCONNECT"} :
                     input_queue' = Append(input_queue, <<p, a>>)
       /\ (engine' # engine \/ game_over' # game_over) =>
            /\ lpc = "drain"
            /\ rstate' = rstate
            /\ input_queue # <<>> /\ input_queue' = Tail(input_queue)]_vars

\* C18's case: both receiver threads are running and inputs of both seats
\* have been applied to their engines.
C18_Witness ==
    /\ \A p \in DOMAIN rstate : rstate[p] = "recv" /\ engine[p] # <<>>
    /\ DOMAIN rstate = Seats

\* forward_to_db's own error dicts: the DB could not be reached or gave no
\* usable response
DbUnusable == LobbyDbResponses \ {"ok", "error"}

\* C21: a lobby step whose credential query got no usable response answers
\* the connection with that error reason, inserts no session and leaves the
\* connection open and unauthenticated; a step whose presence update was not
\* acknowledged still completes the login (session inserted, login_successful
\* sent) or goes on with the logout (session gone, room cleanup or close next).
C21_DbFailure ==
    [][(games' = games /\ ended' = ended) =>
         /\ lobby_db'.db_response \in DbUnusable =>
               \E c \in DOMAIN pc :
                  /\ pc[c] = "recv" /\ pc'[c] = "recv"
                  /\ out' = [to |-> c, reason |-> lobby_db'.db_response]
                  /\ username'[c] = 0
                  /\ c \notin sock_closed'
                  /\ g_client_sessions' = g_client_sessions
         /\ lobby_db'.db_status_response \in LobbyDbResponses \ {"ok"} =>
               \E c \in DOMAIN pc :
                  /\ pc'[c] # pc[c]
                  /\ \/ /\ pc[c] = "login_insert"
                        /\ out' = [to |-> c, reason |-> "login_successful"]
                        /\ username'[c] = data[c]
                        /\ data[c] \in DOMAIN g_client_sessions'
                        /\ g_client_sessions'[data[c]] =
                              [sock |-> c, status |-> Online]
                     \/ /\ pc[c] \in {"recv", "logout_pop"}
                        /\ username[c] # 0
                        /\ username[c] \notin DOMAIN g_client_sessions'
                        /\ pc'[c] \in {"logout_room", "closed"}]_vars

\* C21's case: a login was just answered with the connection error of the
\* credential query while another user is logged in.
C21_Witness ==
    /\ lobby_db.db_response = "db_server_connection_error"
    /\ out.reason = "db_server_connection_error"
    /\ out.to \in DOMAIN pc /\ pc[out.to] = "recv" /\ username[out.to] = 0
    /\ g_client_sessions # <<>>

\* C22: the ROOM_UPDATE a join_room sends carries the players the room had
\* when the joiner was appended together with the host the room had at that
\* same instant.
C22_OneInstant ==
    [][\A c \in DOMAIN pc :
         (pc[c] = "join_room_notify" /\ pc'[c] # "join_room_notify") =>
            /\ notice'.type = "ROOM_UPDATE"
            /\ notice'.players = all_players_in_room[c]
            /\ notice'.host = host_at_copy[c]]_vars

\* C23: while both seats are connected, no Disconnected entry was dequeued
\* and neither engine is over, a step of the match leaves the loop thread in
\* its loop, unless the step dequeues a Disconnected entry or sets a
\* game-over flag.
C23_KeepsLooping ==
    [][(/\ lpc = "drain" /\ winner = "unbound"
        /\ \A p \in Seats : rstate[p] = "recv" /\ ~game_over[p]) =>
          \/ lpc' = "drain"
          \/ winner' # "unbound"
          \/ \E p \in Seats : game_over'[p]]_vars

\* C24: when the Game Service has terminated with exactly one engine over (so
\* no Disconnected entry was dequeued: that sets both flags), the GameLog was
\* submitted and the winner it and GAME_OVER name is the other seat.
C24_SurvivorWins ==
    \A p \in Seats :
        (lpc = "terminated" /\ game_over[p] /\ ~game_over[Other(p)]) =>
            /\ winner = SeatName(Other(p))
            /\ db_creates = 1

\* C25: a Game Service that has terminated after a seat disconnected or an
\* engine's game-over flag was set went through handle_game_end (Settling)
\* exactly once.
C25_SettledOnce ==
    (/\ lpc = "terminated"
     /\ \E p \in Seats : rstate[p] # "recv" \/ game_over[p]) =>
        db_creates = 1

HasStatus(u, st) ==
    u \in DOMAIN g_client_sessions /\ g_client_sessions[u].status = st

JoinVerdict(r) ==
    IF r \notin DOMAIN g_rooms THEN "room_not_found"
    ELSE IF g_rooms[r].status # "idle" THEN "room_is_playing"
    ELSE IF Len(g_rooms[r].players) = 2 THEN "room_is_full"
    ELSE ""

\* C27: a join_room goes on to the room only for a caller whose presence is
\* Online, and is answered already_in_a_room only when it is not; at the room
\* it is answered room_not_found, room_is_playing or room_is_full exactly in
\* the case each names; otherwise the caller is appended as the last entry of
\* players, nothing else of the room changes, and the next step of the
\* handler sets the caller's presence to InRoom(room id).
C27_JoinRoom ==
    [][\A c \in DOMAIN pc :
         LET u == username[c]
             r == room_id[c]
         IN
         /\ (pc[c] = "recv" /\ pc'[c] = "join_room_lock") =>
                HasStatus(u, Online)
         /\ (pc[c] = "recv" /\ pc'[c] = "recv"
               /\ out' = [to |-> c, reason |-> "already_in_a_room"]) =>
                ~HasStatus(u, Online)
         /\ (pc[c] = "join_room_lock" /\ pc'[c] = "recv") =>
                /\ JoinVerdict(r) # ""
                /\ out' = [to |-> c, reason |-> JoinVerdict(r)]
                /\ g_rooms' = g_rooms
         /\ (pc[c] = "join_room_lock" /\ pc'[c] = "join_room_status") =>
                /\ JoinVerdict(r) = ""
                /\ g_rooms' = [g_rooms EXCEPT
                                 ![r].players = Append(@, u)]
         /\ (pc[c] = "join_room_status" /\ pc'[c] # "join_room_status") =>
                /\ pc'[c] = "join_room_notify"
                /\ HasStatus(u, InRoom(r))']_vars

\* the notification step of the join_room handled on connection c
JoinNotifies(c) == pc[c] = "join_room_notify" /\ pc'[c] # "join_room_notify"

\* no two connections carry the same username
OneConnPerUser ==
    \A c1 \in DOMAIN pc, c2 \in DOMAIN pc :
        (c1 # c2 /\ username[c1] # 0) => username[c1] # username[c2]

HostChanges(c) ==
    LET r == session[c].status.room_id IN
    /\ r \in DOMAIN g_rooms /\ r \in DOMAIN g_rooms'
    /\ g_rooms'[r].host # g_rooms[r].host

\* C29: a logout whose room section changes the host goes on to notify the
\* new host, and the notification step sends PROMOTED_TO_HOST with the room's
\* id on the socket of the new host's session when there is such a session,
\* and nothing otherwise; PROMOTED_TO_HOST is sent by no other step of the
\* lobby, and never to the user whose departure it is (the host has then not
\* changed).
C29_PromotedNotified ==
    [][(games' = games /\ ended' = ended) =>
         /\ \A c \in DOMAIN pc :
              /\ (/\ pc[c] = "logout_room" /\ pc'[c] # "logout_room"
                  /\ HostChanges(c)) =>
                       /\ pc'[c] = "logout_notify"
                       /\ new_host'[c] =
                            g_rooms'[session[c].status.room_id].host
              /\ (pc[c] = "logout_notify" /\ pc'[c] # "logout_notify") =>
                    IF new_host[c] \in DOMAIN g_client_sessions
                    THEN /\ notice'.type = "PROMOTED_TO_HOST"
                         /\ notice'.room_id = session[c].status.room_id
                         /\ notice'.to =
                              <<g_client_sessions[new_host[c]].sock>>
                    ELSE notice'.type = ""
         /\ notice'.type = "PROMOTED_TO_HOST" =>
              \E c \in DOMAIN pc :
                 /\ pc[c] = "logout_notify" /\ pc'[c] # "logout_notify"
                 /\ new_host[c] # username[c]]_vars

\* C30: a start_game whose checks passed (the caller is the host of a room of
\* two players) and which launched nothing is answered
\* server_failed_to_start_game; a start_game answered so had passed its
\* checks, leaves the room as it was (an Idle room is still Idle, with the
\* same players and host), spawns no Game Service and sends no GAME_START.
C30_SpawnFailure ==
    [][\A c \in DOMAIN pc :
         LET r == room_id[c]
             failed == [to |-> c, reason |-> "server_failed_to_start_game"]
             passed == /\ r \in DOMAIN g_rooms
                       /\ g_rooms[r].host = username[c]
                       /\ Len(g_rooms[r].players) = 2
         IN
         /\ (/\ pc[c] = "start_game_lock" /\ pc'[c] # "start_game_lock"
             /\ passed /\ games' = games) => out' = failed
         /\ (pc[c] = "start_game_lock" /\ out' = failed) =>
                /\ passed
                /\ g_rooms' = g_rooms
                /\ g_rooms[r].status = "idle" => g_rooms'[r].status = "idle"
                /\ games' = games
         /\ (pc[c] # "start_game_lock") => out' # failed]_vars

\* C30's case: the host of a full Idle room was just answered
\* server_failed_to_start_game, and no Game Service runs.
C30_Witness ==
    /\ out.reason = "server_failed_to_start_game"
    /\ out.to \in DOMAIN pc
    /\ games = <<>>
    /\ \E r \in DOMAIN g_rooms :
          /\ g_rooms[r].host = username[out.to]
          /\ Len(g_rooms[r].players) = 2
          /\ g_rooms[r].status = "idle"
          /\ HasStatus(username[out.to], InRoom(r))

\* the frame is malformed or lacks its fields: bytes that are not JSON, a
\* JSON value that is not an object, or a register or login whose data is
\* not an object or lacks the user or the password
Malformed(req) ==
    \/ req.envelope \in {"invalid_json", "not_object"}
    \/ /\ req.envelope = "object"
       /\ req.action \in {"register", "login"}
       /\ req.data \in {"no_fields", "not_dict"}

\* C31: a connection's `username` is set only by the step of its own
\* handle_login that answers login_successful; an unauthenticated connection
\* that sends an action other than register, login and logout is answered
\* must_be_logged_in, stays unauthenticated and leaves both registries as
\* they were; and a malformed or field-less frame is answered with an error
\* on its connection, which stays open.
C31_Unauthenticated ==
    [][\A c \in DOMAIN pc :
         /\ (username[c] = 0 /\ username'[c] # 0) =>
                /\ pc[c] = "login_insert"
                /\ out' = [to |-> c, reason |-> "login_successful"]
         /\ (/\ request'.on = c /\ username[c] = 0
             /\ request'.envelope = "object"
             /\ request'.action \notin {"register", "login", "logout"}) =>
                /\ out' = [to |-> c, reason |-> "must_be_logged_in"]
                /\ username'[c] = 0
                /\ g_client_sessions' = g_client_sessions
                /\ g_rooms' = g_rooms
         /\ (request'.on = c /\ Malformed(request')) =>
                /\ out'.to = c
                /\ out'.reason \in {"invalid_json_format", "missing_fields"}
                /\ pc'[c] = "recv"
                /\ c \notin sock_closed']_vars

\* C32: when the loop of an authenticated connection ends (a logout request
\* among its causes), the user's session is gone from the registry and an
\* offline presence update has been submitted to the DB; the handler then
\* only goes on to its room section and its notification, and its last step
\* sends logout_successful on that connection and closes it; a closed
\* connection takes no further step.
C32_LogoutTerminal ==
    [][\A c \in DOMAIN pc :
         LET u == username[c] IN
         /\ (/\ pc[c] = "recv" /\ u # 0
             /\ pc'[c] \in {"closed", "logout_room"}) =>
                /\ u \notin DOMAIN g_client_sessions'
                /\ lobby_db'.db_status_response # "none"
         /\ (pc[c] # "closed" /\ pc'[c] = "closed" /\ u # 0) =>
                /\ out' = [to |-> c, reason |-> "logout_successful"]
                /\ c \notin sock_closed'
         /\ (pc[c] \in {"logout_room", "logout_notify"}) =>
                pc'[c] \in {"logout_room", "logout_notify", "closed"}
         /\ (pc[c] = "closed") =>
                (pc'[c] = "closed" /\ request'.on # c)]_vars

\* the engine operations of seat p's actions that wait in the queue, oldest
\* first
RECURSIVE Pending(_, _)
Pending(q, p) ==
    IF q = <<>> THEN <<>>
    ELSE (IF Head(q)[1] = p THEN ProcessInput(Head(q)[2]) ELSE <<>>)
           \o Pending(Tail(q), p)

\* what seat p's receiver thread has delivered so far: the operations applied
\* to p's engine followed by those of p's queued actions
Delivered(p) == engine[p] \o Pending(input_queue, p)

\* C33: an engine changes only when game_loop dequeues the oldest entry of
\* the queue, and then the entry's action is applied to the engine of the
\* seat that enqueued it and to no other; for each seat, applied operations
\* followed by queued ones stay the sequence its receiver delivered, which
\* only grows at its end by the receiver's own puts; and after a DISCONNECT
\* has been dequeued no engine changes any more.
C33_SeatOrder ==
    [][/\ \A p \in Seats :
            \/ Delivered(p)' = Delivered(p)
            \/ /\ winner = "unbound"
               /\ \E a \in Actions :
                    /\ input_queue' = Append(input_queue, <<p, a>>)
                    /\ Delivered(p)' = Delivered(p) \o ProcessInput(a)
               /\ engine' = engine
            \/ /\ winner' # "unbound"
               /\ engine' = engine
       /\ engine' # engine =>
            /\ lpc = "drain" /\ input_queue # <<>>
            /\ input_queue' = Tail(input_queue)
            /\ engine' = [engine EXCEPT ![Head(input_queue)[1]] =
                            @ \o ProcessInput(Head(input_queue)[2])]
       /\ winner # "unbound" => engine' = engine]_vars

\* C33's case: an action was applied, then a DISCONNECT was dequeued while
\* another action still waits in the queue.
C33_Witness ==
    /\ winner # "unbound"
    /\ \E p \in Seats : engine[p] # <<>>
    /\ \E i \in 1..Len(input_queue) : input_queue[i][2] # "DISCONNECT"

\* C34: a User.create for a username that is in the user store when it is
\* processed is answered with an error and leaves the store as it is, and
\* among the User.create requests for one username at most one has been
\* answered ok.
C34_UniqueCreate ==
    [][/\ \A t \in DOMAIN db_thread :
            (/\ db_thread[t].pc = "process" /\ db_thread'[t].pc = "done"
             /\ db_thread[t].request.collection = "User"
             /\ db_thread[t].request.action = "create"
             /\ db_thread[t].request.username \in DOMAIN users_json) =>
                /\ db_thread'[t].response # "ok"
                /\ users_json' = users_json
       /\ \A u \in Users :
            Cardinality({t \in DOMAIN db_thread' :
                           /\ db_thread'[t].request.collection = "User"
                           /\ db_thread'[t].request.action = "create"
                           /\ db_thread'[t].request.username = u
                           /\ db_thread'[t].response = "ok"}) <= 1]_vars

\* C35: every GameLog whose create was answered ok is in the GameLog store.
C35_GameLogKept ==
    \A t \in DOMAIN db_thread :
        (/\ db_thread[t].request.collection = "GameLog"
         /\ db_thread[t].response = "ok") =>
            InList(gamelogs_json, db_thread[t].request.matchid)

\* C36: no username is listed in the players of two different rooms, and
\* none is listed twice in the players of one room.
C36_OneRoomOnce ==
    \A r1 \in DOMAIN g_rooms, r2 \in DOMAIN g_rooms :
        \A i \in 1..Len(g_rooms[r1].players),
           j \in 1..Len(g_rooms[r2].players) :
            g_rooms[r1].players[i] = g_rooms[r2].players[j]
                => (r1 = r2 /\ i = j)

\* a handler is at work for user u: a request, a login or a logout of u on
\* some connection has been taken up and has not returned
Handling(u) ==
    \E c \in DOMAIN pc :
        /\ pc[c] \notin {"recv", "closed"}
        /\ (username[c] = u \/ data[c] = u)

\* the rooms that list u among their players
RoomsOf(u) == {r \in DOMAIN g_rooms : InList(g_rooms[r].players, u)}

\* C37: for a user with no handler at work, the session's status is
\* in_room_<r> exactly when r is a room that lists the user, and online (or
\* no session at all) exactly when no room lists the user.
C37_RegistriesAgree ==
    \A u \in Users :
        ~Handling(u) =>
            IF u \in DOMAIN g_client_sessions
               /\ g_client_sessions[u].status.tag = "in_room"
            THEN RoomsOf(u) = {g_client_sessions[u].status.room_id}
            ELSE RoomsOf(u) = {}

\* C38: two running game servers that were started for different rooms do
\* not have the same port.
C38_DistinctPorts ==
    \A i \in 1..Len(games), j \in 1..Len(games) :
        games[i].room # games[j].room => games[i].port # games[j].port

\* C39: when an iteration of game_loop has emptied the queue without
\* dequeuing a DISCONNECT (winner is still unassigned) and both engines are
\* over, the loop ends with winner P2 and goes on to handle_game_end.
C39_BothOverP2 ==
    [][(/\ lpc = "drain" /\ lpc' # "drain"
        /\ input_queue = <<>> /\ winner = "unbound"
        /\ \A p \in Seats : game_over[p]) =>
          (winner' = "P2" /\ lpc' = "game_end")]_vars
====
